---- MODULE Spec2Model ----
(***************************************************************************)
(* A model of the AgentUp core: the task executor and its router           *)
(* (agent_executor.py), the unified authentication manager and its scope   *)
(* hierarchy (security/unified_auth.py), the MCP tool registration         *)
(* (mcp_support/mcp_integration.py), LLM function calling (llm_manager.py), *)
(* plugin discovery (plugins/manager.py), the handler registry and plugin  *)
(* integration (handlers/handlers.py, plugins/integration.py), the         *)
(* conversation state (state/model.py, context.py), the JSON-RPC endpoint  *)
(* (api.py), message/send with a push configuration (push/handler.py), the *)
(* MCP HTTP endpoint (mcp_support/mcp_http_server.py) and the coroutines   *)
(* that share one state storage (context.py).                              *)
(***************************************************************************)
EXTENDS Integers, Sequences, FiniteSets, TLC

VARIABLES
    \* ---- executor (agent_executor.py) ----
    cfg,        \* GenericAgentExecutor fields: dispatcher, supports_streaming
    pc,         \* position of the one execute() coroutine of the task
    events,     \* the task's event queue, in enqueue order
    status,     \* the task's status in the task store ("none": no task yet)
    created,    \* TRUE when this execute() created the task (new_task)
    route,      \* (target_skill, routing_mode) chosen by execute
    result,     \* value handed to _create_response_artifact
    hres,       \* what the direct handler did: the value it returned, "raised", "nohandler"
    exc,        \* the exception in flight inside execute
    chunkCount, \* chunk_count of _process_streaming
    nparts,     \* len(artifact_parts) of _process_streaming
    dCancelled, \* dispatcher-side cancellation flag of the task
    cancels,    \* the cancel() calls made so far, oldest first
    \* ---- authentication manager (security/unified_auth.py) ----
    hierarchy,    \* ScopeHierarchy.hierarchy: parent scope -> children
    auth_enabled, \* UnifiedAuthenticationManager.auth_enabled
    authReq,      \* the request being authenticated: what the provider of each configured
                  \* auth type does with it (in configured order), required_scopes
    authOut,      \* outcome of authenticate_request
    check,        \* the last scope check made on the returned AuthContext
    \* ---- MCP tool registration (mcp_support/mcp_integration.py) ----
    servers,      \* mcp_config["servers"]: each server's tool_scopes
    available,    \* mcp_client.get_available_tools()
    mcpPc,        \* position of _initialize_mcp_client
    capReg,       \* capabilities registered by register_mcp_tool_as_capability
    funcReg,      \* the function registry: sanitized name -> wrapped tool
    clientReg,    \* TRUE once registry.register_mcp_client has run
    call,         \* the last invocation of a registered wrapper
    \* ---- LLM function calling (llm_manager.py) ----
    llm,          \* one llm_with_functions call: its locals and its position
    \* ---- routing (agent_executor.py, _determine_skill_and_routing) ----
    routing,      \* skills, fallback_skill, default_routing_mode, user_input and the result
    \* ---- repeated scope expansion (security/unified_auth.py) ----
    expansion,    \* a hierarchy, a scope list and the results of expand_scopes on it
    \* ---- plugin manager (plugins/manager.py) ----
    pmgr,         \* PluginManager: pm, plugins, capabilities, capability_to_plugin,
                  \* capability_hooks; the entry points and the position of discovery
    \* ---- handler registry (handlers/handlers.py, plugins/integration.py) ----
    hreg,         \* _handlers, the two configurations and _global_*_applied flags,
                  \* the agent config's plugins list and whether integration has run
    \* ---- conversation state variables (state/model.py) ----
    cvars,        \* ConversationState.variables with the clock, the last read made and
                  \* the versions seen after each completed write
    \* ---- conversation history (state/model.py) ----
    chist,        \* ConversationState.history with its limits, archived_messages, the
                  \* summary counts and every message added so far
    \* ---- conversation context manager (context.py) ----
    cctx,         \* ConversationContext: its storage backend and what that holds per
                  \* context id, the last completed write of each key and the last read
    \* ---- message/send with a push configuration (push/handler.py) ----
    push,         \* one CustomRequestHandler.on_message_send call: the request, the
                  \* handler's store and sender, what the parent returned, the outcome
    \* ---- the JSON-RPC endpoint (api.py) ----
    rpc,          \* one POST /: the body, what the request models and the handler do
                  \* with it, and the response
    bfs,           \* one call of expand_scopes, statement by statement
    mcph,          \* the MCP HTTP endpoint and its last request and response
    cstore         \* coroutines working on one context of a StateStorage

execVars == <<cfg, pc, events, status, created, route, result, hres, exc,
              chunkCount, nparts, dCancelled, cancels>>

authVars == <<hierarchy, auth_enabled, authReq, authOut, check>>

mcpVars == <<servers, available, mcpPc, capReg, funcReg, clientReg, call>>

vars == <<execVars, authVars, mcpVars, llm, routing, expansion, pmgr, hreg, cvars, chist, cctx, push, rpc, bfs, mcph, cstore>>

\* what the actions of one component leave alone
notExec == <<authVars, mcpVars, llm, routing, expansion, pmgr, hreg, cvars, chist, cctx, push, rpc, bfs, mcph, cstore>>
notAuth == <<execVars, mcpVars, llm, routing, expansion, pmgr, hreg, cvars, chist, cctx, push, rpc, bfs, mcph, cstore>>
notMcp == <<execVars, authVars, llm, routing, expansion, pmgr, hreg, cvars, chist, cctx, push, rpc, bfs, mcph, cstore>>
notLlm == <<execVars, authVars, mcpVars, routing, expansion, pmgr, hreg, cvars, chist, cctx, push, rpc, bfs, mcph, cstore>>
notRouting == <<execVars, authVars, mcpVars, llm, expansion, pmgr, hreg, cvars, chist, cctx, push, rpc, bfs, mcph, cstore>>
notExpansion == <<execVars, authVars, mcpVars, llm, routing, pmgr, hreg, cvars, chist, cctx, push, rpc, bfs, mcph, cstore>>
notPmgr == <<execVars, authVars, mcpVars, llm, routing, expansion, hreg, cvars, chist, cctx, push, rpc, bfs, mcph, cstore>>
notHreg == <<execVars, authVars, mcpVars, llm, routing, expansion, pmgr, cvars, chist, cctx, push, rpc, bfs, mcph, cstore>>
notCvars == <<execVars, authVars, mcpVars, llm, routing, expansion, pmgr, hreg, chist, cctx, push, rpc, bfs, mcph, cstore>>
notChist == <<execVars, authVars, mcpVars, llm, routing, expansion, pmgr, hreg, cvars, cctx, push, rpc, bfs, mcph, cstore>>
notCctx == <<execVars, authVars, mcpVars, llm, routing, expansion, pmgr, hreg, cvars, chist, push, rpc, bfs, mcph, cstore>>
notPush == <<execVars, authVars, mcpVars, llm, routing, expansion, pmgr, hreg, cvars, chist, cctx, rpc, bfs, mcph, cstore>>
notRpc == <<execVars, authVars, mcpVars, llm, routing, expansion, pmgr, hreg, cvars, chist, cctx, push, bfs, mcph, cstore>>
notBfs == <<execVars, authVars, mcpVars, llm, routing, expansion, pmgr, hreg, cvars, chist, cctx, push, rpc, mcph, cstore>>
notMcph == <<execVars, authVars, mcpVars, llm, routing, expansion, pmgr, hreg, cvars, chist, cctx, push, rpc, bfs, cstore>>
notCstore == <<execVars, authVars, mcpVars, llm, routing, expansion, pmgr, hreg, cvars, chist, cctx, push, rpc, bfs, mcph>>

-----------------------------------------------------------------------------
(* Bounds *)

MaxChunks == 3
MaxCancels == 2

-----------------------------------------------------------------------------
(* Task states (a2a TaskState as used by the executor) *)

TerminalStates == {"completed", "failed", "canceled", "rejected"}

NonTerminalStates == {"submitted", "working", "input_required"}

(* Exceptions: a class and a message.  A message is a sequence of words;  *)
(* str(e).lower() lower-cases every word.                                  *)

ExceptionClasses == {"ValueError", "RuntimeError", "CancelledError"}

\* CancelledError derives from BaseException, the others from Exception.
IsException(cls) == cls \in {"ValueError", "RuntimeError"}

Messages == { <<"bad", "value">>, <<"Unsupported", "format">>,
              <<"UNSUPPORTED">>, <<>> }

Lower(w) ==
    CASE w = "Unsupported" -> "unsupported"
      [] w = "UNSUPPORTED" -> "unsupported"
      [] OTHER -> w

HasMarker(msg) == \E i \in 1..Len(msg) : Lower(msg[i]) = "unsupported"

Exceptions == [cls : ExceptionClasses, msg : Messages]

NoExc == [cls |-> "none", msg |-> <<>>]

(* Results a handler or the dispatcher can return, by Python type and     *)
(* truthiness.                                                             *)

ResultKinds == {"str", "emptystr", "dict", "dictsum", "emptydict",
                "list", "emptylist", "none", "obj"}

Falsy(r) == r \in {"emptystr", "emptydict", "emptylist", "none"}

\* result if isinstance(result, str) else str(result); the text of a value
\* that is not a string is a string of its own, and not an empty one
Stringify(r) ==
    CASE r \in {"str", "emptystr"} -> r
      [] r = "dict" -> "str(dict)"
      [] r = "dictsum" -> "str(dictsum)"
      [] r = "emptydict" -> "str(emptydict)"
      [] r = "list" -> "str(list)"
      [] r = "emptylist" -> "str(emptylist)"
      [] r = "none" -> "str(none)"
      [] OTHER -> "str(obj)"

\* isinstance(value, str)
IsString(value) == value \in {Stringify(r) : r \in ResultKinds}

\* Part(root=TextPart(text=...)) and Part(root=DataPart(data=...)): content
\* names the value carried, taken whole ("self"), as value["summary"], or
\* wrapped as {"items": value}
TextPart(how, value) == [type |-> "text", how |-> how, of |-> value]

DataPart(how, value) == [type |-> "data", how |-> how, of |-> value]

\* the parts _create_response_artifact builds for a result that is not falsy
ResponseParts(r) ==
    IF IsString(r)
    THEN <<TextPart("self", r)>>
    ELSE IF r \in {"dict", "dictsum", "emptydict"}
    THEN (IF r = "dictsum" THEN <<TextPart("summary", r)>> ELSE <<>>)
             \o <<DataPart("self", r)>>
    ELSE IF r \in {"list", "emptylist"}
    THEN <<DataPart("items", r)>>
    ELSE <<TextPart("self", Stringify(r))>>

SkillIds == {"echo", "status"}

RoutingModes == {"ai", "direct"}

\* skills with a registered handler (handlers._handlers)
Handlers == {"status"}

get_handler(skill) == skill \in Handlers

-----------------------------------------------------------------------------
(* Events *)

TaskEvent(by) ==
    [kind |-> "task", state |-> "submitted", final |-> FALSE, by |-> by,
     append |-> "none", last |-> "none", name |-> "-", n |-> 0, parts |-> <<>>]

StatusEvent(st, fin, by) ==
    [kind |-> "status", state |-> st, final |-> fin, by |-> by,
     append |-> "none", last |-> "none", name |-> "-", n |-> 0, parts |-> <<>>]

\* TaskArtifactUpdateEvent(..., append=True, lastChunk=False)
\* named "<agent>-stream-<n>" (text chunk) or "<agent>-data-<n>" (dict chunk)
ChunkEvent(nm, k) ==
    [kind |-> "artifact-update", state |-> "-", final |-> FALSE, by |-> "execute",
     append |-> "true", last |-> "false", name |-> nm, n |-> k,
     parts |-> <<IF nm = "stream" THEN TextPart("self", "chunk")
                 ELSE DataPart("self", "chunk")>>]

\* TaskUpdater.add_artifact(parts, name=...): append and lastChunk unset
ArtifactEvent(nm, parts) ==
    [kind |-> "artifact-update", state |-> "-", final |-> FALSE, by |-> "execute",
     append |-> "none", last |-> "none", name |-> nm, n |-> 0, parts |-> parts]

IsTerminalEvent(e) == e.kind = "status" /\ e.state \in TerminalStates

\* the task store follows the status carried by the events
StatusAfter(st, e) == IF e.kind = "artifact-update" THEN st ELSE e.state

Enqueue(e) ==
    /\ events' = Append(events, e)
    /\ status' = StatusAfter(status, e)

-----------------------------------------------------------------------------
(* GenericAgentExecutor.execute *)

Dispatchers == {"none", "plain", "cancellable"}

Configs == [dispatcher : Dispatchers, supports_streaming : BOOLEAN]

\* _requires_input
RequiresInput == FALSE

\* the except clauses of execute: the status emitted for exception e,
\* "none" when the clause emits nothing, "raise" when no clause catches e
ExceptionStatus(e) ==
    IF e.cls = "ValueError"
    THEN IF HasMarker(e.msg) THEN "rejected" ELSE "none"
    ELSE IF IsException(e.cls) THEN "failed" ELSE "raise"

\* execute: task = context.current_task; if not task: new_task + enqueue
ExecStart ==
    /\ pc = "idle"
    /\ IF status = "none"
       THEN /\ Enqueue(TaskEvent("execute"))
            /\ created' = TRUE
       ELSE /\ UNCHANGED <<events, status>>
            /\ created' = FALSE
    /\ pc' = "working"
    /\ UNCHANGED <<cfg, route, result, hres, exc, chunkCount, nparts, dCancelled, cancels>>
    /\ UNCHANGED notExec

\* execute: updater.update_status(TaskState.working, ...)
ExecWorking ==
    /\ pc = "working"
    /\ Enqueue(StatusEvent("working", FALSE, "execute"))
    /\ pc' = IF RequiresInput THEN "input" ELSE "route"
    /\ UNCHANGED <<cfg, created, route, result, hres, exc, chunkCount, nparts, dCancelled, cancels>>
    /\ UNCHANGED notExec

\* execute: _determine_skill_and_routing, then the branch on routing_mode
ExecRoute ==
    /\ pc = "route"
    /\ \E target \in SkillIds, mode \in RoutingModes :
        /\ route' = <<target, mode>>
        /\ pc' = IF mode = "ai" /\ cfg.dispatcher # "none"
                 THEN IF cfg.supports_streaming THEN "stream_open" ELSE "ai_sync"
                 ELSE "direct"
    /\ UNCHANGED <<cfg, events, status, created, result, hres, exc, chunkCount, nparts, dCancelled, cancels>>
    /\ UNCHANGED notExec

\* _process_direct_routing
ExecDirect ==
    /\ pc = "direct"
    /\ IF ~get_handler(route[1])
       THEN /\ hres' = "nohandler"
            /\ result' = "str"
            /\ exc' = exc
            /\ pc' = "respond"
       ELSE \/ \E r \in ResultKinds :
                 /\ hres' = r
                 /\ result' = Stringify(r)
                 /\ exc' = exc
                 /\ pc' = "respond"
            \/ \E e \in Exceptions :
                 /\ hres' = "raised"
                 /\ IF IsException(e.cls)
                    THEN /\ result' = "str"
                         /\ exc' = exc
                         /\ pc' = "respond"
                    ELSE /\ result' = result
                         /\ exc' = e
                         /\ pc' = "except"
    /\ UNCHANGED <<cfg, events, status, created, route, chunkCount, nparts, dCancelled, cancels>>
    /\ UNCHANGED notExec

\* execute: result = await self.dispatcher.process_task(task)
ExecDispatch ==
    /\ pc = "ai_sync"
    /\ \/ \E r \in ResultKinds :
            /\ result' = r
            /\ exc' = exc
            /\ pc' = "respond"
       \/ \E e \in Exceptions :
            /\ result' = result
            /\ exc' = e
            /\ pc' = "except"
    /\ UNCHANGED <<cfg, events, status, created, route, hres, chunkCount, nparts, dCancelled, cancels>>
    /\ UNCHANGED notExec

\* _create_response_artifact up to its first enqueue
ExecRespond ==
    /\ pc = "respond"
    /\ IF Falsy(result)
       THEN /\ Enqueue(StatusEvent("completed", TRUE, "execute"))
            /\ pc' = "done"
       ELSE /\ Enqueue(ArtifactEvent("result", ResponseParts(result)))
            /\ pc' = "complete"
    /\ UNCHANGED <<cfg, created, route, result, hres, exc, chunkCount, nparts, dCancelled, cancels>>
    /\ UNCHANGED notExec

\* updater.complete()
ExecComplete ==
    /\ pc = "complete"
    /\ Enqueue(StatusEvent("completed", TRUE, "execute"))
    /\ pc' = "done"
    /\ UNCHANGED <<cfg, created, route, result, hres, exc, chunkCount, nparts, dCancelled, cancels>>
    /\ UNCHANGED notExec

\* the except clauses of execute
ExecExcept ==
    /\ pc = "except"
    /\ LET st == ExceptionStatus(exc) IN
        /\ IF st \in {"none", "raise"}
           THEN UNCHANGED <<events, status>>
           ELSE Enqueue(StatusEvent(st, TRUE, "execute"))
        /\ pc' = IF st = "raise" THEN "raised" ELSE "done"
    /\ UNCHANGED <<cfg, created, route, result, hres, exc, chunkCount, nparts, dCancelled, cancels>>
    /\ UNCHANGED notExec

-----------------------------------------------------------------------------
(* GenericAgentExecutor._process_streaming *)

ChunkKinds == {"str", "dict", "other"}

\* The dispatcher honours a cancellation request: once cancel_task(task) has
\* run, its stream yields no further chunk (it ends or raises).
StreamMayYield == ~dCancelled

\* stream = await self.dispatcher.process_task_streaming(task)
ExecStreamOpen ==
    /\ pc = "stream_open"
    /\ \/ /\ pc' = "stream"
          /\ exc' = exc
       \/ \E e \in Exceptions :
            /\ exc' = e
            /\ pc' = "except"
    /\ UNCHANGED <<cfg, events, status, created, route, result, hres, chunkCount, nparts, dCancelled, cancels>>
    /\ UNCHANGED notExec

\* one iteration of "async for chunk in stream"
ExecStreamChunk ==
    /\ pc = "stream"
    /\ StreamMayYield
    /\ chunkCount < MaxChunks
    /\ chunkCount' = chunkCount + 1
    /\ \E c \in ChunkKinds :
        IF c = "str"
        THEN /\ nparts' = nparts + 1
             /\ Enqueue(ChunkEvent("stream", chunkCount + 1))
        ELSE IF c = "dict"
        THEN /\ nparts' = nparts + 1
             /\ Enqueue(ChunkEvent("data", chunkCount + 1))
        ELSE /\ nparts' = nparts
             /\ UNCHANGED <<events, status>>
    /\ UNCHANGED <<cfg, pc, created, route, result, hres, exc, dCancelled, cancels>>
    /\ UNCHANGED notExec

\* the stream is exhausted: the final add_artifact when parts were collected
ExecStreamEnd ==
    /\ pc = "stream"
    /\ IF nparts > 0
       THEN LET chunks == SelectSeq(events, LAMBDA e : e.append = "true")
            IN Enqueue(ArtifactEvent("complete",
                                     [i \in 1..Len(chunks) |-> chunks[i].parts[1]]))
       ELSE UNCHANGED <<events, status>>
    /\ pc' = "complete"
    /\ UNCHANGED <<cfg, created, route, result, hres, exc, chunkCount, nparts, dCancelled, cancels>>
    /\ UNCHANGED notExec

\* the stream raises while being iterated
ExecStreamRaise ==
    /\ pc = "stream"
    /\ \E e \in Exceptions :
        /\ exc' = e
        /\ pc' = "except"
    /\ UNCHANGED <<cfg, events, status, created, route, result, hres, chunkCount, nparts, dCancelled, cancels>>
    /\ UNCHANGED notExec

-----------------------------------------------------------------------------
(* GenericAgentExecutor.cancel *)

CancelCall(snap, why, outcome, emitted) ==
    [snap |-> snap, why |-> why, outcome |-> outcome, emitted |-> emitted]

CancelPending == Len(cancels) > 0 /\ cancels[Len(cancels)].outcome = "pending"

\* hasattr(self.dispatcher, 'cancel_task')
SupportsCancel(c) == c.dispatcher = "cancellable"

\* CancelCheck without the test of the task's state
CancelCheck_NoTerminalTest(st, c) ==
    IF st = "none" THEN "no_task"
    ELSE IF SupportsCancel(c) THEN "proceed"
    ELSE "unsupported"

\* cancel, from its entry to the call of dispatcher.cancel_task: the outcome
\* of the checks for a task in state st ("no_task", "terminal", "unsupported"
\* are the three ServerErrors; "proceed" calls cancel_task)
CancelCheck(st, c) ==
    IF st = "none" THEN "no_task"
    ELSE IF st \in TerminalStates THEN "terminal"
    ELSE IF SupportsCancel(c) THEN "proceed"
    ELSE "unsupported"

CancelStart ==
    /\ Len(cancels) < MaxCancels
    /\ ~CancelPending
    /\ LET chk == CancelCheck(status, cfg) IN
        IF chk = "proceed"
        THEN \/ /\ dCancelled' = TRUE
                /\ cancels' = Append(cancels, CancelCall(status, "ok", "pending", 0))
             \/ \* cancel_task raises: "Failed to cancel task"
                /\ dCancelled' = dCancelled
                /\ cancels' = Append(cancels, CancelCall(status, "cancel_failed", "error", 0))
        ELSE /\ dCancelled' = dCancelled
             /\ cancels' = Append(cancels, CancelCall(status, chk, "error", 0))
    /\ UNCHANGED <<cfg, pc, events, status, created, route, result, hres, exc, chunkCount, nparts>>
    /\ UNCHANGED notExec

\* cancel: updater.update_status(TaskState.canceled, ..., final=True); return task
CancelEmit ==
    /\ CancelPending
    /\ Enqueue(StatusEvent("canceled", TRUE, "cancel"))
    /\ cancels' = [cancels EXCEPT ![Len(cancels)] =
                      CancelCall(@.snap, @.why, "canceled", @.emitted + 1)]
    /\ UNCHANGED <<cfg, pc, created, route, result, hres, exc, chunkCount, nparts, dCancelled>>
    /\ UNCHANGED notExec

ExecIdleVars ==
    /\ pc = "idle"
    /\ events = <<>>
    /\ created = FALSE
    /\ route = <<"-", "-">>
    /\ result = "-"
    /\ hres = "none"
    /\ exc = NoExc
    /\ chunkCount = 0
    /\ nparts = 0
    /\ dCancelled = FALSE
    /\ cancels = <<>>

ExecAtRest ==
    /\ cfg = [dispatcher |-> "none", supports_streaming |-> FALSE]
    /\ status = "none"
    /\ ExecIdleVars

InitExec ==
    /\ cfg \in Configs
    /\ status \in {"none"} \cup NonTerminalStates
    /\ ExecIdleVars

NextExec ==
    \/ ExecStart
    \/ ExecWorking
    \/ ExecRoute
    \/ ExecDirect
    \/ ExecDispatch
    \/ ExecRespond
    \/ ExecComplete
    \/ ExecExcept
    \/ ExecStreamOpen
    \/ ExecStreamChunk
    \/ ExecStreamEnd
    \/ ExecStreamRaise
    \/ CancelStart
    \/ CancelEmit

-----------------------------------------------------------------------------
(* ScopeHierarchy and AuthContext (security/unified_auth.py) *)

Scopes == {"admin", "files:read", "files:write", "*"}

\* the child lists a configured parent can have
ChildSets == { {"files:read"}, {"files:write"}, {"*"}, {"admin"},
               {"files:read", "files:write"} }

Parents == {"admin", "files:read"}

\* every hierarchy over Parents: a function from the configured parents to
\* their children (ScopeHierarchy.__init__ leaves it empty, and
\* add_scope_inheritance fills it from the configuration)
Hierarchies == UNION { [P -> ChildSets] : P \in SUBSET Parents }

EmptyHierarchy == CHOOSE h \in Hierarchies : DOMAIN h = {}

RECURSIVE SetToSeq(_)
SetToSeq(S) ==
    IF S = {} THEN <<>>
    ELSE LET x == CHOOSE y \in S : TRUE IN <<x>> \o SetToSeq(S \ {x})

\* the BFS loop of expand_scopes: queue is to_process, seen is seen (and
\* expanded, which holds the same elements throughout)
RECURSIVE ExpandLoop(_, _, _)
ExpandLoop(h, queue, seen) ==
    IF queue = <<>> THEN seen
    ELSE LET scope == Head(queue) IN
         IF scope \in DOMAIN h
         THEN IF "*" \in h[scope]
              THEN {"*"}
              ELSE LET new == h[scope] \ seen IN
                   ExpandLoop(h, Tail(queue) \o SetToSeq(new), seen \cup new)
         ELSE ExpandLoop(h, Tail(queue), seen)

\* expand_scopes that adds the children of the user's own scopes and stops
\* there
expand_scopes_DirectOnly(h, user_scopes) ==
    IF \E s \in user_scopes : s \in DOMAIN h /\ "*" \in h[s]
    THEN {"*"}
    ELSE user_scopes \cup UNION { h[s] : s \in user_scopes \cap DOMAIN h }

\* ScopeHierarchy.expand_scopes
expand_scopes(h, user_scopes) ==
    IF \E s \in user_scopes : s \in DOMAIN h /\ "*" \in h[s]
    THEN {"*"}
    ELSE ExpandLoop(h, SetToSeq(user_scopes), user_scopes)

\* validate_scope that accepts every scope
validate_scope_Always(h, user_scopes, required_scope) == TRUE

\* ScopeHierarchy.validate_scope
validate_scope(h, user_scopes, required_scope) ==
    LET expanded == expand_scopes(h, user_scopes) IN
    required_scope \in expanded \/ "*" \in expanded

\* AuthContext.has_scope
has_scope(scopes, scope) == scope \in scopes \/ "admin" \in scopes

\* AuthContext.require_scope: 403 unless has_scope
require_scope(scopes, scope) == IF has_scope(scopes, scope) THEN "ok" ELSE "403"

(* expand_scopes applied to its own result *)

MaxRuns == 2

\* every hierarchy over the parents admin, files:read and "*": with "*" as
\* a child and as a parent key, with cycles and with self-loops
WideHierarchies == UNION { [P -> ChildSets] : P \in SUBSET {"admin", "files:read", "*"} }

InitExpansion ==
    expansion \in [hierarchy : WideHierarchies, user_scopes : SUBSET Scopes, runs : {<<>>}]

ExpansionAtRest ==
    expansion = [hierarchy |-> EmptyHierarchy, user_scopes |-> {}, runs |-> <<>>]

\* expand_scopes(user_scopes), then expand_scopes of the last result
Expand ==
    /\ Len(expansion.runs) < MaxRuns
    /\ LET arg == IF expansion.runs = <<>> THEN expansion.user_scopes
                  ELSE expansion.runs[Len(expansion.runs)]
       IN  expansion' = [expansion EXCEPT !.runs =
                            Append(@, expand_scopes(expansion.hierarchy, arg))]
    /\ UNCHANGED notExpansion

-----------------------------------------------------------------------------
(* UnifiedAuthenticationManager.authenticate_request *)

MaxProviders == 2

\* the scopes a credential can carry (token_data["scopes"], JWT "scopes")
UserScopeSets == { {}, {"admin"}, {"files:read"}, {"files:write"}, {"*"},
                   {"admin", "files:read"} }

\* what provider.authenticate(request) does: returns None, raises, returns a
\* context with is_valid False, or returns a valid context with some scopes
ProviderOutcomes ==
    { [kind |-> k, scopes |-> {}] : k \in {"decline", "error", "invalid"} }
    \cup { [kind |-> "accept", scopes |-> S] : S \in UserScopeSets }

\* one provider per auth type of the "auth" configuration, in its order
ProviderLists == UNION { [1..n -> ProviderOutcomes] : n \in 0..MaxProviders }

\* _initialize_providers: self.auth_providers holds the provider of the
\* first configured auth type only ("Using <first>, ignoring others")
_initialize_providers(configured) ==
    IF configured = <<>> THEN <<>> ELSE <<configured[1]>>

\* required_scopes (None and [] both skip the check)
RequiredSets == { {} } \cup { {s} : s \in Scopes } \cup { {"files:read", "files:write"} }

AuthNone == [status |-> "none", scopes |-> {}, provider |-> 0]

AuthRaise(code) == [status |-> code, scopes |-> {}, provider |-> 0]

\* the loop over self.auth_providers, from provider i on
RECURSIVE TryProviders(_, _, _, _)
TryProviders(h, provs, required, i) ==
    IF i > Len(provs) THEN AuthRaise("401")
    ELSE IF provs[i].kind = "accept"
    THEN LET expanded == expand_scopes(h, provs[i].scopes) IN
         IF \E r \in required : ~validate_scope(h, expanded, r)
         THEN AuthRaise("403")
         ELSE [status |-> "ok", scopes |-> expanded, provider |-> i]
    ELSE TryProviders(h, provs, required, i + 1)

\* UnifiedAuthenticationManager.authenticate_request
authenticate_request(h, enabled, provs, required) ==
    IF ~enabled THEN AuthRaise("401")
    ELSE TryProviders(h, provs, required, 1)

NoRequest == [providers |-> <<>>, required |-> {}]

NoCheck == [scope |-> "-", has |-> FALSE, require |-> "-", validate |-> FALSE]

Authenticate ==
    /\ authOut = AuthNone
    /\ \E provs \in ProviderLists, required \in RequiredSets :
        /\ authReq' = [providers |-> provs, required |-> required]
        /\ authOut' = authenticate_request(hierarchy, auth_enabled,
                                            _initialize_providers(provs), required)
    /\ UNCHANGED <<hierarchy, auth_enabled, check>>
    /\ UNCHANGED notAuth

\* a scope check on the returned AuthContext: has_scope, require_scope and
\* validate_scope_access(context.scopes, scope)
CheckScope ==
    /\ authOut.status = "ok"
    /\ \E s \in Scopes :
        check' = [scope |-> s,
                  has |-> has_scope(authOut.scopes, s),
                  require |-> require_scope(authOut.scopes, s),
                  validate |-> validate_scope(hierarchy, authOut.scopes, s)]
    /\ UNCHANGED <<hierarchy, auth_enabled, authReq, authOut>>
    /\ UNCHANGED notAuth

AuthIdleVars ==
    /\ authReq = NoRequest
    /\ authOut = AuthNone
    /\ check = NoCheck

InitAuth ==
    /\ hierarchy \in Hierarchies
    /\ auth_enabled \in BOOLEAN
    /\ AuthIdleVars

\* the manager as the other components' runs see it
AuthAtRest ==
    /\ hierarchy = EmptyHierarchy
    /\ auth_enabled = TRUE
    /\ AuthIdleVars

NextAuth ==
    \/ Authenticate
    \/ CheckScope

-----------------------------------------------------------------------------
(* MCP tool registration (mcp_support/mcp_integration.py) *)

MaxTools == 2

ServerNames == <<"fs", "web">>

\* the tools the remote servers can report: tool["name"], tool["server"]
RemoteTools == { [name |-> "read", server |-> "fs"],
                 [name |-> "write-file", server |-> "fs"],
                 [name |-> "read", server |-> "web"] }

\* f"{server_name}:{tool_name}"
Prefixed(server_name, tool_name) == server_name \o ":" \o tool_name

PrefixedNames == { Prefixed(t.server, t.name) : t \in RemoteTools }

ScopeLists == { <<>>, <<"files:write">> }

\* a server's tool_scopes: prefixed tool name -> required scopes
ToolScopeMaps == UNION { [K -> ScopeLists] : K \in SUBSET PrefixedNames }

\* dict.update
DictUpdate(a, b) ==
    [k \in DOMAIN a \cup DOMAIN b |-> IF k \in DOMAIN b THEN b[k] ELSE a[k]]

\* _extract_tool_scopes_from_servers
RECURSIVE ExtractFrom(_, _)
ExtractFrom(servers_config, i) ==
    IF i = 0 THEN [k \in {} |-> <<>>]
    ELSE DictUpdate(ExtractFrom(servers_config, i - 1), servers_config[i].tool_scopes)

_extract_tool_scopes_from_servers(servers_config) ==
    ExtractFrom(servers_config, Len(servers_config))

\* _get_required_scopes_for_tool that grants an unconfigured tool no scopes
\* instead of refusing it
_get_required_scopes_for_tool_FailOpen(tool_name, server_name, tool_scopes) ==
    IF Prefixed(server_name, tool_name) \in DOMAIN tool_scopes
    THEN [ok |-> TRUE, scopes |-> tool_scopes[Prefixed(server_name, tool_name)]]
    ELSE [ok |-> TRUE, scopes |-> <<>>]

\* _get_required_scopes_for_tool: ok FALSE stands for the ValueError
_get_required_scopes_for_tool(tool_name, server_name, tool_scopes) ==
    IF Prefixed(server_name, tool_name) \in DOMAIN tool_scopes
    THEN [ok |-> TRUE, scopes |-> tool_scopes[Prefixed(server_name, tool_name)]]
    ELSE [ok |-> FALSE, scopes |-> <<>>]

\* tool_name.replace("-", "_")
CapabilityName(tool_name) ==
    IF tool_name = "write-file" THEN "write_file" ELSE tool_name

\* original_tool_name.replace(":", "_"): none of the tool names has a colon
SanitizedName(tool_name) == tool_name

Registered(tool, scopes) ==
    [original |-> tool.name, server |-> tool.server, scopes |-> scopes]

Phase(ph, i) == [phase |-> ph, i |-> i]

ToolLists ==
    { t \in UNION { [1..n -> RemoteTools] : n \in 0..MaxTools } :
        \A i, j \in DOMAIN t : i # j => t[i] # t[j] }

\* _initialize_mcp_client up to the registration of the tools
McpStart ==
    /\ mcpPc = Phase("start", 0)
    /\ IF servers = <<>>
       THEN mcpPc' = Phase("no_servers", 0)
       ELSE \/ \* MCPClientService(...).initialize() raises
               mcpPc' = Phase("failed", 0)
            \/ mcpPc' = IF available = <<>> THEN Phase("ready", 0) ELSE Phase("caps", 1)
    /\ UNCHANGED <<servers, available, capReg, funcReg, clientReg, call>>
    /\ UNCHANGED notMcp

\* one iteration of the loop of _register_mcp_tools_as_capabilities
McpRegisterCapability ==
    /\ mcpPc.phase = "caps"
    /\ LET tool == available[mcpPc.i]
           req == _get_required_scopes_for_tool(
                      tool.name, tool.server, _extract_tool_scopes_from_servers(servers))
       IN  IF req.ok
           THEN /\ capReg' = DictUpdate(capReg,
                      [k \in {CapabilityName(tool.name)} |-> Registered(tool, req.scopes)])
                /\ mcpPc' = IF mcpPc.i < Len(available)
                            THEN Phase("caps", mcpPc.i + 1)
                            ELSE Phase("funcs", 1)
           ELSE \* the ValueError ends the loop
                /\ capReg' = capReg
                /\ mcpPc' = Phase("funcs", 1)
    /\ UNCHANGED <<servers, available, funcReg, clientReg, call>>
    /\ UNCHANGED notMcp

\* one iteration of the loop of _register_mcp_tools_with_scopes; the MCP
\* client is registered when the loop ends, normally or by the ValueError
McpRegisterFunction ==
    /\ mcpPc.phase = "funcs"
    /\ LET tool == available[mcpPc.i]
           req == _get_required_scopes_for_tool(
                      tool.name, tool.server, _extract_tool_scopes_from_servers(servers))
       IN  IF req.ok
           THEN /\ funcReg' = DictUpdate(funcReg,
                      [k \in {SanitizedName(tool.name)} |-> Registered(tool, req.scopes)])
                /\ IF mcpPc.i < Len(available)
                   THEN /\ mcpPc' = Phase("funcs", mcpPc.i + 1)
                        /\ clientReg' = clientReg
                   ELSE /\ mcpPc' = Phase("ready", 0)
                        /\ clientReg' = TRUE
           ELSE /\ funcReg' = funcReg
                /\ mcpPc' = Phase("ready", 0)
                /\ clientReg' = TRUE
    /\ UNCHANGED <<servers, available, capReg, call>>
    /\ UNCHANGED notMcp

\* the current AuthContext of a call: None, or the scopes it holds
NoAuth == [present |-> FALSE, scopes |-> {}]

AuthChoices ==
    {NoAuth} \cup { [present |-> TRUE, scopes |-> S] :
                      S \in { {}, {"files:read"}, {"files:write"}, {"admin"} } }

\* context.has_scope(scope) of the capability context built from the
\* current AuthContext
ContextHasScope(auth, scope) == scope \in auth.scopes

\* scope_enforced_mcp_tool: "denied" is the PermissionError, "called" the
\* invocation of client.call_tool(original_name, ...)
scope_enforced_mcp_tool(scopes, auth) ==
    IF auth.present /\ \E i \in 1..Len(scopes) : ~ContextHasScope(auth, scopes[i])
    THEN "denied"
    ELSE "called"

NoCall == [fn |-> "-", auth |-> NoAuth, outcome |-> "-"]

\* the dispatcher invokes a registered wrapper under some AuthContext
McpCallTool ==
    /\ mcpPc.phase = "ready"
    /\ \E fn \in DOMAIN funcReg, auth \in AuthChoices :
        call' = [fn |-> fn, auth |-> auth,
                 outcome |-> scope_enforced_mcp_tool(funcReg[fn].scopes, auth)]
    /\ UNCHANGED <<servers, available, mcpPc, capReg, funcReg, clientReg>>
    /\ UNCHANGED notMcp

EmptyRegistry == [k \in {} |-> Registered([name |-> "-", server |-> "-"], <<>>)]

McpIdleVars ==
    /\ mcpPc = Phase("start", 0)
    /\ capReg = EmptyRegistry
    /\ funcReg = EmptyRegistry
    /\ clientReg = FALSE
    /\ call = NoCall

\* servers: the first Len(servers) of ServerNames, each with its tool_scopes
ServerConfigs ==
    UNION { { c \in [1..n -> [name : {ServerNames[1], ServerNames[2]}, tool_scopes : ToolScopeMaps]] :
                \A i \in 1..n : c[i].name = ServerNames[i] } : n \in 0..2 }

InitMcp ==
    /\ servers \in ServerConfigs
    /\ available \in ToolLists
    /\ McpIdleVars

McpAtRest ==
    /\ servers = <<>>
    /\ available = <<>>
    /\ McpIdleVars

NextMcp ==
    \/ McpStart
    \/ McpRegisterCapability
    \/ McpRegisterFunction
    \/ McpCallTool

-----------------------------------------------------------------------------
(* LLMManager.llm_with_functions (llm_manager.py) *)

MaxCalls == 2

\* what function_executor.execute_function_call does for one call: returns a
\* str, returns another value, or raises (PermissionError is what a
\* scope-enforcing MCP wrapper raises; CancelledError is a BaseException)
CallOutcomes == {"str", "nonstr", "PermissionError", "RuntimeError", "CancelledError"}

\* response of chat_complete_with_functions: content and function_calls
Responses ==
    [content : {"", "text"},
     function_calls : UNION { [1..n -> {"add", "mcp_read"}] : n \in 0..MaxCalls }]

\* the try/except around one call with every exception left uncaught
function_try_NoCatch(o) ==
    IF o \in {"str", "nonstr"}
    THEN [append |-> o, raise |-> FALSE]
    ELSE [append |-> "-", raise |-> TRUE]

\* the try/except around one call: what is appended to function_results
\* ("error" is f"Error: {str(e)}"), or that the exception leaves the loop
function_try(o) ==
    IF o \in {"str", "nonstr"}
    THEN [append |-> o, raise |-> FALSE]
    ELSE IF o \in {"PermissionError", "RuntimeError"}
    THEN [append |-> "error", raise |-> FALSE]
    ELSE [append |-> "-", raise |-> TRUE]

\* the return statements after the loop; "; ".join raises TypeError on a
\* result that is not a str
llm_return(native, response, function_results) ==
    IF function_results # <<>>
    THEN IF \E i \in DOMAIN function_results : function_results[i] = "nonstr"
         THEN "raise"
         ELSE IF native /\ response.content # ""
         THEN "content+results"
         ELSE "results"
    ELSE "content"

LlmIdle(native) ==
    [pc |-> "ask", native |-> native, chat_messages |-> <<"system", "user">>,
     response |-> [content |-> "", function_calls |-> <<>>],
     function_results |-> <<>>, executed |-> <<>>, completions |-> 0, ret |-> "-"]

\* response = await llm.chat_complete_with_functions(chat_messages, function_schemas)
LlmAsk ==
    /\ llm.pc = "ask"
    /\ \/ \E r \in Responses :
            llm' = [llm EXCEPT !.response = r, !.completions = @ + 1,
                               !.pc = IF r.function_calls # <<>> THEN "calls" ELSE "return"]
       \/ \* the provider raises
          llm' = [llm EXCEPT !.completions = @ + 1, !.pc = "returned", !.ret = "raise"]
    /\ UNCHANGED notLlm

\* one iteration of "for func_call in response.function_calls"
LlmExecuteCall ==
    /\ llm.pc = "calls"
    /\ \E o \in CallOutcomes :
        LET i == Len(llm.executed) + 1
            t == function_try(o)
            done == [llm EXCEPT !.executed =
                        Append(@, [idx |-> i, name |-> llm.response.function_calls[i],
                                   outcome |-> o])]
        IN  IF t.raise
            THEN llm' = [done EXCEPT !.pc = "returned", !.ret = "raise"]
            ELSE llm' = [done EXCEPT
                            !.function_results = Append(@, t.append),
                            !.pc = IF i = Len(llm.response.function_calls)
                                   THEN "return" ELSE "calls"]
    /\ UNCHANGED notLlm

LlmReturn ==
    /\ llm.pc = "return"
    /\ llm' = [llm EXCEPT !.pc = "returned",
                          !.ret = llm_return(llm.native, llm.response, llm.function_results)]
    /\ UNCHANGED notLlm

InitLlm == llm \in { LlmIdle(native) : native \in BOOLEAN }

LlmAtRest == llm = LlmIdle(TRUE)

NextLlm ==
    \/ LlmAsk
    \/ LlmExecuteCall
    \/ LlmReturn

-----------------------------------------------------------------------------
(* GenericAgentExecutor._determine_skill_and_routing *)

MaxSkills == 2
MaxText == 2

\* a str is a sequence of characters
Texts == UNION { [1..n -> {"a", "A", "b"}] : n \in 0..MaxText }

\* str.lower, character by character
str_lower(t) == [i \in DOMAIN t |-> IF t[i] = "A" THEN "a" ELSE t[i]]

\* needle in haystack
Contains(haystack, needle) ==
    \E i \in 1..(Len(haystack) - Len(needle) + 1) :
        SubSeq(haystack, i, i + Len(needle) - 1) = needle

\* keyword.lower() in user_input.lower()
KeywordOccurs(keyword, user_input) == Contains(str_lower(user_input), str_lower(keyword))

\* a pattern: one that does not compile, a literal, or "^" and a literal
PatternSearch(pattern, user_input) ==
    CASE pattern.kind = "invalid" -> "error"
      [] pattern.kind = "literal" ->
            IF Contains(str_lower(user_input), str_lower(pattern.text))
            THEN "match" ELSE "none"
      [] OTHER ->
            IF /\ Len(pattern.text) <= Len(user_input)
               /\ SubSeq(str_lower(user_input), 1, Len(pattern.text)) = str_lower(pattern.text)
            THEN "match" ELSE "none"

\* the loop over patterns with the re.error left uncaught: the search ends
\* at the first pattern that does not compile
PatternsMatch_ErrorStops(patterns, user_input) ==
    \E i \in DOMAIN patterns :
        /\ PatternSearch(patterns[i], user_input) = "match"
        /\ \A j \in 1..(i - 1) : PatternSearch(patterns[j], user_input) # "error"

\* the loop over patterns: re.error is caught and the loop goes on
PatternsMatch(patterns, user_input) ==
    \E i \in DOMAIN patterns : PatternSearch(patterns[i], user_input) = "match"

\* the loop over self.skills from the i-th on: the first skill that
\* returns, 0 when the loop ends
RECURSIVE FirstMatch(_, _, _)
FirstMatch(skills, user_input, i) ==
    IF i > Len(skills) THEN 0
    ELSE IF /\ skills[i].routing_mode = "direct"
            /\ \/ \E k \in DOMAIN skills[i].keywords :
                      KeywordOccurs(skills[i].keywords[k], user_input)
               \/ PatternsMatch(skills[i].patterns, user_input)
    THEN i
    ELSE FirstMatch(skills, user_input, i + 1)

_determine_skill_and_routing(r) ==
    IF r.user_input = <<>>
    THEN <<r.fallback_skill, r.default_routing_mode>>
    ELSE LET i == FirstMatch(r.skills, r.user_input, 1) IN
         IF i = 0
         THEN <<r.fallback_skill, r.default_routing_mode>>
         ELSE <<r.skills[i].skill_id, r.skills[i].routing_mode>>

\* self.skills in configured order, the i-th named SkillOrder[i]
SkillOrder == <<"status", "help", "search">>

SkillConfigs ==
    UNION { { c \in [1..n -> [skill_id : {SkillOrder[i] : i \in 1..n},
                              routing_mode : RoutingModes,
                              keywords : { <<>>, << <<"b">>, <<"A", "b">> >> },
                              patterns : { <<>>,
                                           << [kind |-> "invalid", text |-> <<>>],
                                              [kind |-> "literal", text |-> <<"A">>] >>,
                                           << [kind |-> "anchored", text |-> <<"a">>] >> }]] :
                  \A i \in 1..n : c[i].skill_id = SkillOrder[i] } : n \in 0..MaxSkills }

InitRouting ==
    routing \in [skills : SkillConfigs, fallback_skill : {"echo"},
                 default_routing_mode : RoutingModes, user_input : Texts, out : {<<>>}]

RoutingAtRest ==
    routing = [skills |-> <<>>, fallback_skill |-> "echo", default_routing_mode |-> "ai",
               user_input |-> <<>>, out |-> <<>>]

\* skill, mode = self._determine_skill_and_routing(user_input)
SelectCapability ==
    /\ routing.out = <<>>
    /\ routing' = [routing EXCEPT !.out = _determine_skill_and_routing(routing)]
    /\ UNCHANGED notRouting

-----------------------------------------------------------------------------
(* PluginManager: discovery of entry-point plugins (plugins/manager.py) *)

MaxPlugins == 2

\* entry_point.name of the i-th entry point
PluginNames == <<"p1", "p2", "p3">>

\* what a plugin's register_capability does: returns a CapabilityInfo,
\* returns an object that is not one, returns None, or raises (as the
\* CapabilityInfo constructor does when id, name or version is missing)
CapabilityResults ==
    [kind : {"info"}, id : {"c1", "c2"}, version : {"1", "2"}]
    \cup { [kind |-> k, id |-> "-", version |-> "-"] : k \in {"invalid", "none", "raise"} }

\* an entry point: entry_point.load() and plugin_class() succeed or raise
EntryPoints ==
    [load : {"ok"}, cap : CapabilityResults]
    \cup { [load |-> "raise", cap |-> [kind |-> "none", id |-> "-", version |-> "-"]] }

\* the registry as a reload_plugin call found it, the name it was given and
\* what it returned
NoReload ==
    [name |-> "-", ret |-> "-",
     before |-> [pm |-> <<>>, capabilities |-> [c \in {} |-> "-"],
                 capability_to_plugin |-> [c \in {} |-> "-"],
                 capability_hooks |-> [c \in {} |-> "-"]]]

PmgrIdle(entry_points) ==
    [entry_points |-> entry_points, i |-> 1, pm |-> <<>>,
     plugins |-> [n \in {} |-> "-"],
     capabilities |-> [c \in {} |-> "-"],
     capability_to_plugin |-> [c \in {} |-> "-"],
     capability_hooks |-> [c \in {} |-> "-"],
     registrations |-> <<>>, aborted |-> FALSE, reload |-> NoReload]

\* _register_plugin_capability(plugin_name, plugin_instance) on manager m,
\* own being what plugin_instance.register_capability() does.
\* self.pm.hook.register_capability() calls the registered plugins, the
\* last registered first, raises when one of them raises and drops None.
_register_plugin_capability(m, plugin_name, own) ==
    LET n == Len(m.pm)
        called == [k \in 1..n |-> m.entry_points[m.pm[n + 1 - k]].cap]
        NotNone(r) == r.kind # "none"
        results == SelectSeq(called, NotNone)
    IN  IF \E k \in 1..n : called[k].kind = "raise" THEN m
        ELSE IF results = <<>> THEN m
        ELSE LET capability_info ==
                     IF \E k \in DOMAIN results : results[k] = own
                     THEN own
                     ELSE results[Len(results)]
             IN  IF capability_info.kind # "info" THEN m
                 ELSE [m EXCEPT
                         !.capabilities =
                             DictUpdate(@, [c \in {capability_info.id} |-> capability_info]),
                         !.capability_to_plugin =
                             DictUpdate(@, [c \in {capability_info.id} |-> plugin_name]),
                         !.capability_hooks =
                             DictUpdate(@, [c \in {capability_info.id} |-> plugin_name]),
                         !.registrations =
                             Append(@, [id |-> capability_info.id, plugin |-> plugin_name,
                                        info |-> capability_info])]

\* the versions that match ^\d+\.\d+\.\d+(-[\w\.-]+)?(\+[\w\.-]+)?$, among
\* those the manager passes: the version of a distribution and "unknown"
validate_version(v) == v = "1.0.0"

\* PluginInfo(name=..., version=..., status=..., error=...): TRUE when the
\* validators accept the fields, FALSE for the ValidationError
PluginInfo(version, plugin_status, error) ==
    /\ validate_version(version)
    /\ ~(plugin_status = "error" /\ error = "")

\* one iteration of the loop of _load_entry_point_plugins; the except
\* clause builds PluginInfo(version="unknown", status=ERROR, error=str(e)),
\* and the ValidationError it raises leaves the loop for the outer except
LoadEntryPoint ==
    /\ pmgr.i <= Len(pmgr.entry_points)
    /\ ~pmgr.aborted
    /\ LET ep == pmgr.entry_points[pmgr.i]
           name == PluginNames[pmgr.i]
       IN  IF ep.load = "raise"
           THEN IF PluginInfo("unknown", "error", "load failed")
                THEN pmgr' = [pmgr EXCEPT !.i = @ + 1,
                                 !.plugins = DictUpdate(@, [x \in {name} |-> "error"])]
                ELSE pmgr' = [pmgr EXCEPT !.aborted = TRUE]
           ELSE pmgr' = [_register_plugin_capability(
                            [pmgr EXCEPT !.pm = Append(@, pmgr.i),
                                !.plugins = DictUpdate(@, [x \in {name} |-> "loaded"])],
                            name, ep.cap)
                            EXCEPT !.i = @ + 1]
    /\ UNCHANGED notPmgr

\* dict without the keys in removed
DictWithout(d, removed) == [k \in DOMAIN d \ removed |-> d[k]]

\* reload_plugin(plugin_name) once discovery is over; the plugins of the
\* registry come from entry points, whose PluginInfo.metadata has no source
ReloadPlugin ==
    /\ pmgr.i > Len(pmgr.entry_points) \/ pmgr.aborted
    /\ pmgr.reload = NoReload
    /\ \E plugin_name \in { PluginNames[k] : k \in DOMAIN PluginNames } :
        LET before == [pm |-> pmgr.pm, capabilities |-> pmgr.capabilities,
                       capability_to_plugin |-> pmgr.capability_to_plugin,
                       capability_hooks |-> pmgr.capability_hooks]
            capabilities_to_remove ==
                { c \in DOMAIN pmgr.capability_to_plugin :
                    pmgr.capability_to_plugin[c] = plugin_name }
            NotNamed(k) == PluginNames[k] # plugin_name
            returned == [name |-> plugin_name, ret |-> "False", before |-> before]
        IN  IF plugin_name \in DOMAIN pmgr.plugins
            THEN pmgr' = [pmgr EXCEPT
                            !.pm = SelectSeq(@, NotNamed),
                            !.capabilities = DictWithout(@, capabilities_to_remove),
                            !.capability_to_plugin = DictWithout(@, capabilities_to_remove),
                            !.capability_hooks = DictWithout(@, capabilities_to_remove),
                            !.reload = returned]
            ELSE pmgr' = [pmgr EXCEPT !.reload = returned]
    /\ UNCHANGED notPmgr

NextPmgr ==
    \/ LoadEntryPoint
    \/ ReloadPlugin

InitPmgr ==
    \E n \in 0..MaxPlugins : \E eps \in [1..n -> EntryPoints] : pmgr = PmgrIdle(eps)

PmgrAtRest == pmgr = PmgrIdle(<<>>)

-----------------------------------------------------------------------------
(* Handler registry (handlers/handlers.py) and plugin integration
   (plugins/integration.py) *)

\* the most wrappers around one handler that the model follows
MaxLayers == 4

\* adapter.list_available_capabilities() with each capability's plugin_name
Discovered ==
    [c \in {"read_file", "list_dir", "echo"} |->
        IF c = "echo" THEN "echo_plugin" ELSE "system_tools"]

\* with_middleware(...)(handler) for layer "mw", with_state(...)(handler) for
\* layer "state": returns the handler itself when the layer is not configured
\* (no middleware configured, state not enabled); otherwise a new function
\* around it.  layers lists the wrappers, outermost first; attrs are the
\* function attributes (_agentup_middleware_applied as "mw",
\* _agentup_state_applied as "state"), which the new function carries over
\* from the wrapped one only if the decorator copies them (m.wraps).
\* A failing decorator returns the handler unchanged, like an unconfigured layer.
_apply_to_handler(m, handler, layer) ==
    IF ~m.configured[layer]
    THEN handler
    ELSE [layers |-> <<layer>> \o handler.layers,
          attrs |-> IF m.wraps THEN handler.attrs ELSE {},
          origin |-> handler.origin]

register_handler_function(m, skill_id, origin) ==
    LET func == [layers |-> <<>>, attrs |-> {}, origin |-> origin]
        wrapped == _apply_to_handler(m, _apply_to_handler(m, func, "mw"), "state")
    IN [m EXCEPT !.handlers =
            [k \in DOMAIN m.handlers \cup {skill_id} |->
                IF k = skill_id THEN wrapped ELSE m.handlers[k]]]

\* the registry once the module is imported: @register_handler("status") has run
ImportedHandlers(configured, wraps, plugins) ==
    register_handler_function(
        [configured |-> configured, wraps |-> wraps, plugins |-> plugins,
         handlers |-> <<>>, applied |-> [l \in {"mw", "state"} |-> FALSE],
         integrated |-> FALSE],
        "status", "builtin")

\* register_handler(skill_id)(func) and register_handler_function(skill_id, func)
\* called by the agent's own code
RegisterHandler ==
    /\ \E skill_id \in {"status", "echo"} :
           hreg' = register_handler_function(hreg, skill_id, "builtin")
    /\ UNCHANGED notHreg

\* apply_global_middleware() (layer "mw") and apply_global_state() (layer "state")
ApplyGlobal ==
    /\ \A k \in DOMAIN hreg.handlers : Len(hreg.handlers[k].layers) < MaxLayers
    /\ \E layer \in {"mw", "state"} :
           hreg' =
               IF hreg.applied[layer]
               THEN hreg
               ELSE [hreg EXCEPT
                        !.applied[layer] = TRUE,
                        !.handlers =
                            IF ~hreg.configured[layer]
                            THEN @
                            ELSE [k \in DOMAIN @ |->
                                    IF layer \in @[k].attrs
                                    THEN @[k]
                                    ELSE [_apply_to_handler(hreg, @[k], layer)
                                             EXCEPT !.attrs = @ \cup {layer}]]]
    /\ UNCHANGED notHreg

\* reset_middleware_cache() and reset_state_cache(); the configuration that
\* is loaded again afterwards is the same one
ResetCache ==
    /\ \E layer \in {"mw", "state"} : hreg' = [hreg EXCEPT !.applied[layer] = FALSE]
    /\ UNCHANGED notHreg

\* integrate_plugins_with_handlers()
IntegratePlugins ==
    LET configured_plugins == IF hreg.plugins.loaded THEN hreg.plugins.ids ELSE {}
        capabilities_to_register ==
            IF configured_plugins = {}
            THEN DOMAIN Discovered
            ELSE {c \in DOMAIN Discovered :
                     Discovered[c] \in configured_plugins \/ c \in configured_plugins}
        new == capabilities_to_register \ DOMAIN hreg.handlers
        wrapped(c) == register_handler_function(hreg, c, "plugin").handlers[c]
    IN /\ hreg' = [hreg EXCEPT
                      !.integrated = TRUE,
                      !.handlers = [k \in DOMAIN @ \cup new |->
                                       IF k \in new THEN wrapped(k) ELSE @[k]]]
       /\ UNCHANGED notHreg

NextHreg == RegisterHandler \/ ApplyGlobal \/ ResetCache \/ IntegratePlugins

\* the agent config's plugins list: unloadable, or the plugin_id of each entry
PluginConfigs ==
    {[loaded |-> FALSE, ids |-> {}]}
        \cup {[loaded |-> TRUE, ids |-> s] : s \in SUBSET {"system_tools", "echo", "read_file"}}

InitHreg ==
    \E configured \in [{"mw", "state"} -> BOOLEAN], wraps \in BOOLEAN,
       plugins \in PluginConfigs :
        hreg = ImportedHandlers(configured, wraps, plugins)

HregAtRest ==
    hreg = ImportedHandlers([l \in {"mw", "state"} |-> FALSE], FALSE,
                            [loaded |-> TRUE, ids |-> {}])

-----------------------------------------------------------------------------
(* ConversationState: variables with a time-to-live (state/model.py) *)

\* the latest reading of the clock and the number of set_variable calls followed
MaxTime == 2
MaxWrites == 2

\* ttl=None
NoTtl == -1

Keys == {"k1", "k2"}

\* StateVariable.is_expired with the comparison turned into >=
is_expired_AtDeadline(var, now) ==
    IF var.ttl = NoTtl \/ var.ttl = 0
    THEN FALSE
    ELSE now >= var.updated_at + var.ttl

\* StateVariable.is_expired: a ttl of None or 0 never expires
is_expired(var, now) ==
    IF var.ttl = NoTtl \/ var.ttl = 0
    THEN FALSE
    ELSE now > var.updated_at + var.ttl

NoRead == [key |-> "none", at |-> 0, result |-> "none", u |-> 0, t |-> NoTtl, value |-> "none"]

\* ConversationState(...) with no variables; max_variable_count as configured
NewConversationState(max_variable_count) ==
    [now |-> 0, variables |-> <<>>, max_variable_count |-> max_variable_count,
     writes |-> 0, read |-> NoRead,
     written |-> [k \in Keys |-> [u |-> 0, t |-> NoTtl, value |-> "none"]],
     versions |-> [k \in Keys |-> <<>>]]

\* datetime.utcnow() advances
Tick ==
    /\ cvars.now < MaxTime
    /\ cvars' = [cvars EXCEPT !.now = @ + 1]
    /\ UNCHANGED notCvars

\* ConversationState.set_variable(key, value, ttl).  It raises, changing
\* nothing, when the variable count is exhausted or when a new variable is
\* given a ttl that validate_ttl rejects; the update of an existing variable
\* assigns var.ttl without validation.
SetVariable ==
    /\ cvars.writes < MaxWrites
    /\ \E key \in Keys, value \in {"a", "b"}, ttl \in {NoTtl, 0, 1} :
        LET vs == cvars.variables
            raises ==
                \/ Cardinality(DOMAIN vs) >= cvars.max_variable_count /\ key \notin DOMAIN vs
                \/ key \notin DOMAIN vs /\ ttl # NoTtl /\ ttl <= 0
            var ==
                IF key \in DOMAIN vs
                THEN [value |-> value, updated_at |-> cvars.now,
                      version |-> vs[key].version + 1,
                      ttl |-> IF ttl # NoTtl THEN ttl ELSE vs[key].ttl]
                ELSE [value |-> value, updated_at |-> cvars.now, version |-> 1,
                      ttl |-> ttl]
        IN cvars' =
            IF raises
            THEN [cvars EXCEPT !.writes = @ + 1]
            ELSE [cvars EXCEPT
                    !.writes = @ + 1,
                    !.variables = [k \in DOMAIN vs \cup {key} |->
                                      IF k = key THEN var ELSE vs[k]],
                    !.written[key] = [u |-> cvars.now, t |-> ttl, value |-> value],
                    !.versions[key] = Append(@, var.version)]
    /\ UNCHANGED notCvars

\* ConversationState.get_variable(key, default): an expired variable is
\* deleted and the default returned
GetVariable ==
    /\ \E key \in Keys :
        LET vs == cvars.variables
            expired == key \in DOMAIN vs /\ is_expired(vs[key], cvars.now)
            returned ==
                IF key \notin DOMAIN vs \/ expired THEN "default" ELSE vs[key].value
        IN cvars' = [cvars EXCEPT
                        !.variables =
                            IF expired THEN [k \in DOMAIN vs \ {key} |-> vs[k]] ELSE @,
                        !.read = [key |-> key, at |-> cvars.now, result |-> returned,
                                  u |-> cvars.written[key].u, t |-> cvars.written[key].t,
                                  value |-> cvars.written[key].value]]
    /\ UNCHANGED notCvars

\* ConversationState.cleanup_expired_variables()
CleanupExpired ==
    /\ LET vs == cvars.variables
       IN cvars' = [cvars EXCEPT
                       !.variables =
                           [k \in {x \in DOMAIN vs : ~is_expired(vs[x], cvars.now)} |-> vs[k]]]
    /\ UNCHANGED notCvars

NextCvars == Tick \/ SetVariable \/ GetVariable \/ CleanupExpired

InitCvars == \E max_variable_count \in {1, 2} : cvars = NewConversationState(max_variable_count)

CvarsAtRest == cvars = NewConversationState(1)

-----------------------------------------------------------------------------
(* ConversationState: bounded history (state/model.py) *)

\* the largest max_history_size and the most messages added that the model follows
MaxHistorySize == 3
MaxMessages == 4

\* Python's seq[-n:] and seq[:-n] for n >= 0; -0 is 0, so seq[-0:] is the
\* whole sequence and seq[:-0] is empty
SliceLast(seq, n) ==
    IF n = 0 \/ n >= Len(seq) THEN seq ELSE SubSeq(seq, Len(seq) - n + 1, Len(seq))

SliceButLast(seq, n) ==
    IF n = 0 \/ n >= Len(seq) THEN <<>> ELSE SubSeq(seq, 1, Len(seq) - n)

CountRole(seq, role) == Cardinality({i \in 1..Len(seq) : seq[i].role = role})

\* _archive_old_messages that drops the old messages without counting them
_archive_old_messages_Uncounted(s) ==
    [s EXCEPT !.history = SliceLast(s.history, s.max_history_size \div 2)]

\* ConversationState._archive_old_messages()
_archive_old_messages(s) ==
    LET keep_count == s.max_history_size \div 2
        to_archive == SliceButLast(s.history, keep_count)
    IN [s EXCEPT
           !.history = SliceLast(s.history, keep_count),
           !.archived_messages = @ + Len(to_archive),
           !.summary = [total_messages |-> @.total_messages + Len(to_archive),
                        user_messages |-> @.user_messages + CountRole(to_archive, "user"),
                        assistant_messages |->
                            @.assistant_messages + CountRole(to_archive, "assistant")]]

\* ConversationState.add_message(message)
add_message(s, message) ==
    LET appended == [s EXCEPT !.history = Append(@, message)]
    IN IF Len(appended.history) > s.max_history_size
       THEN IF s.auto_summarize
            THEN _archive_old_messages(appended)
            ELSE [appended EXCEPT
                     !.history = SliceLast(@, s.max_history_size),
                     !.archived_messages =
                         @ + Len(SliceButLast(appended.history, s.max_history_size))]
       ELSE appended

\* ConversationState.get_summary_stats(): the counts of the returned
\* ConversationSummary
get_summary_stats(s) ==
    [total_messages |-> Len(s.history) + s.archived_messages,
     user_messages |-> CountRole(s.history, "user"),
     assistant_messages |-> CountRole(s.history, "assistant")]

\* a ConversationState with an empty history; a summary that does not exist
\* yet counts nothing
EmptyHistory(max_history_size, auto_summarize) ==
    [max_history_size |-> max_history_size, auto_summarize |-> auto_summarize,
     history |-> <<>>, archived_messages |-> 0,
     summary |-> [total_messages |-> 0, user_messages |-> 0, assistant_messages |-> 0],
     added |-> <<>>]

AddMessage ==
    /\ Len(chist.added) < MaxMessages
    /\ \E role \in {"user", "assistant"} :
        LET message == [id |-> Len(chist.added) + 1, role |-> role]
        IN chist' = [add_message(chist, message) EXCEPT !.added = Append(@, message)]
    /\ UNCHANGED notChist

InitChist ==
    \E max_history_size \in 1..MaxHistorySize, auto_summarize \in BOOLEAN :
        chist = EmptyHistory(max_history_size, auto_summarize)

ChistAtRest == chist = EmptyHistory(1, FALSE)

-----------------------------------------------------------------------------
(* ConversationContext over InMemoryStorage or FileStorage (context.py) *)

ContextIds == {"c1", "c2"}

\* the values written: a string, a tuple and a set
ValueKinds == {"text", "tuple", "set"}

\* json.dump followed by json.load: a tuple comes back as a list
JsonRoundTrip(value) == IF value = "tuple" THEN "list" ELSE value

\* json.dump raises TypeError on a set
Serializable(value) == value # "set"

NoState == [kind |-> "missing", variables |-> <<>>]

\* StateStorage.get(context_id): InMemoryStorage returns the object it holds;
\* FileStorage loads the context's file and returns None when there is none
\* or when json.load fails
storage_get(m, context_id) ==
    IF m.stored[context_id].kind = "state" THEN m.stored[context_id] ELSE NoState

\* StateStorage.set(state): InMemoryStorage keeps the object; FileStorage
\* opens the file for writing and dumps the state into it, logging any
\* exception: a TypeError part-way leaves a file that is not JSON
storage_set(m, context_id, state) ==
    [m EXCEPT !.stored[context_id] =
        IF m.storage = "memory"
        THEN state
        ELSE IF \A k \in DOMAIN state.variables : Serializable(state.variables[k])
             THEN [state EXCEPT
                      !.variables = [k \in DOMAIN @ |-> JsonRoundTrip(@[k])]]
             ELSE [kind |-> "corrupt", variables |-> <<>>]]

\* ConversationContext.get_or_create(context_id)
get_or_create(m, context_id) ==
    IF storage_get(m, context_id).kind = "state"
    THEN m
    ELSE storage_set(m, context_id, [kind |-> "state", variables |-> <<>>])

NoContextRead == [context_id |-> "none", key |-> "none", result |-> "none", written |-> "none"]

\* ConversationContext(storage)
NewConversationContext(storage) ==
    [storage |-> storage,
     stored |-> [c \in ContextIds |-> NoState],
     written |-> [c \in ContextIds |-> [k \in Keys |-> "none"]],
     read |-> NoContextRead]

\* ConversationContext.set_variable(context_id, key, value)
ContextSetVariable ==
    /\ \E context_id \in ContextIds, key \in Keys, value \in ValueKinds :
        LET ensured == get_or_create(cctx, context_id)
            state == storage_get(ensured, context_id)
            updated == [state EXCEPT
                           !.variables = [k \in DOMAIN @ \cup {key} |->
                                             IF k = key THEN value ELSE @[k]]]
        IN cctx' = [storage_set(ensured, context_id, updated) EXCEPT
                       !.written[context_id][key] = value]
    /\ UNCHANGED notCctx

\* ConversationContext.get_variable(context_id, key, default)
ContextGetVariable ==
    /\ \E context_id \in ContextIds, key \in Keys :
        LET state == storage_get(cctx, context_id)
            returned ==
                IF state.kind # "state" \/ key \notin DOMAIN state.variables
                THEN "default"
                ELSE state.variables[key]
        IN cctx' = [cctx EXCEPT
                       !.read = [context_id |-> context_id, key |-> key,
                                 result |-> returned,
                                 written |-> cctx.written[context_id][key]]]
    /\ UNCHANGED notCctx

NextCctx == ContextSetVariable \/ ContextGetVariable

InitCctx == \E storage \in {"memory", "file"} : cctx = NewConversationContext(storage)

CctxAtRest == cctx = NewConversationContext("memory")

-----------------------------------------------------------------------------
(* CustomRequestHandler.on_message_send (push/handler.py) *)

\* DefaultRequestHandler.on_message_send: the Task the executor produced, in
\* the state it reached, a Message, or an exception
ParentOutcomes == {"task:completed", "task:failed", "task:input-required", "message", "raises"}

IsTask(r) == r \in {"task:completed", "task:failed", "task:input-required"}

\* params.configuration: absent, without pushNotificationConfig, with one
Configurations == {"none", "plain", "push"}

\* set_task_push_notification_config: the configuration is stored, or the
\* store rejects it or fails and raises
StoreOutcomes == {"stored", "raises"}

\* send_notification: delivered, or the delivery failed, which the sender
\* logs without raising
SenderOutcomes == {"delivered", "failed"}

PushRequests ==
    [configuration : Configurations, context : BOOLEAN,
     _push_config_store : BOOLEAN, _push_sender : BOOLEAN]

NewMessageSend(req) ==
    [req |-> req, pc |-> "super", result |-> "none", stored |-> "none",
     sent |-> "none", outcome |-> "none"]

\* result = await super().on_message_send(params, context), and the test
\* that follows it
SuperOnMessageSend ==
    /\ push.pc = "super"
    /\ \E r \in ParentOutcomes :
        push' =
            IF r = "raises"
            THEN [push EXCEPT !.pc = "done", !.result = r, !.outcome = "error"]
            ELSE IF /\ IsTask(r)
                    /\ push.req._push_config_store /\ push.req._push_sender
                    /\ push.req.configuration = "push"
            THEN [push EXCEPT !.pc = "store", !.result = r]
            ELSE [push EXCEPT !.pc = "done", !.result = r, !.outcome = r]
    /\ UNCHANGED notPush

\* await self._push_config_store.set_task_push_notification_config(...)
SaveConfig ==
    /\ push.pc = "store"
    /\ \E o \in StoreOutcomes :
        push' =
            IF o = "raises"
            THEN [push EXCEPT !.pc = "done", !.stored = o, !.outcome = "error"]
            ELSE [push EXCEPT !.pc = "send", !.stored = o]
    /\ UNCHANGED notPush

\* await self._push_sender.send_notification(result); return result
SendInitial ==
    /\ push.pc = "send"
    /\ \E o \in SenderOutcomes :
        push' = [push EXCEPT !.pc = "done", !.sent = o, !.outcome = push.result]
    /\ UNCHANGED notPush

NextPush == SuperOnMessageSend \/ SaveConfig \/ SendInitial

InitPush == \E req \in PushRequests : push = NewMessageSend(req)

PushAtRest ==
    push = NewMessageSend([configuration |-> "none", context |-> FALSE,
                           _push_config_store |-> FALSE, _push_sender |-> FALSE])

-----------------------------------------------------------------------------
(* jsonrpc_endpoint: POST / (api.py) *)

\* JSON-RPC error codes written by the endpoint; NoError stands for a
\* response that carries no error object of the endpoint's own
InvalidRequestCode == -32600
MethodNotFoundCode == -32601
InternalErrorCode == -32603
NoError == 0

HttpOk == 200

\* the methods the interface names as supported
SupportedMethods ==
    {"message/send", "message/stream", "tasks/get", "tasks/cancel", "tasks/resubscribe",
     "tasks/pushNotificationConfig/set", "tasks/pushNotificationConfig/get",
     "tasks/pushNotificationConfig/list", "tasks/pushNotificationConfig/delete"}

\* the methods answered with a server-sent event stream
StreamingMethods == {"message/stream", "tasks/resubscribe"}

\* the methods the endpoint hands to JSONRPCHandler
RoutedMethods ==
    SupportedMethods \ {"tasks/pushNotificationConfig/list",
                        "tasks/pushNotificationConfig/delete"}

\* the request body: text that is not JSON, JSON that is not an object, or
\* an object with its jsonrpc and method members ("absent" when missing) and
\* params that the method's request model accepts or rejects
RpcBodies ==
    {[json |-> j, jsonrpc |-> "absent", method |-> "absent", params_valid |-> TRUE] :
        j \in {"invalid", "array"}}
    \cup [json : {"object"}, jsonrpc : {"2.0", "1.0", "absent"},
          method : SupportedMethods \cup {"tasks/unknown", "absent"},
          params_valid : BOOLEAN]

\* what the JSONRPCHandler call does: returns a response, or raises
HandlerOutcomes == {"response", "raises"}

RpcResponse(code, sse) == [status |-> HttpOk, code |-> code, sse |-> sse]

\* jsonrpc_endpoint(request, handler) for a request that passed @protected();
\* request.json() raises on a body that is not JSON, the request model of a
\* routed method raises on params it rejects, and every exception ends in the
\* except clause; create_agent_card() is taken to succeed
jsonrpc_endpoint(body, handler) ==
    IF body.json = "invalid"
    THEN RpcResponse(InternalErrorCode, FALSE)
    ELSE IF body.json # "object" \/ body.jsonrpc # "2.0" \/ body.method = "absent"
    THEN RpcResponse(InvalidRequestCode, FALSE)
    ELSE IF body.method \in RoutedMethods
    THEN IF ~body.params_valid
         THEN RpcResponse(InternalErrorCode, FALSE)
         ELSE IF body.method \in StreamingMethods
         THEN RpcResponse(NoError, TRUE)
         ELSE IF handler = "raises"
         THEN RpcResponse(InternalErrorCode, FALSE)
         ELSE RpcResponse(NoError, FALSE)
    ELSE RpcResponse(MethodNotFoundCode, FALSE)

NewRpcRequest(body, handler) ==
    [body |-> body, handler |-> handler, answered |-> FALSE,
     response |-> RpcResponse(NoError, FALSE)]

JsonRpcEndpoint ==
    /\ ~rpc.answered
    /\ rpc' = [rpc EXCEPT !.answered = TRUE,
                          !.response = jsonrpc_endpoint(rpc.body, rpc.handler)]
    /\ UNCHANGED notRpc

InitRpc ==
    \E body \in RpcBodies, handler \in HandlerOutcomes : rpc = NewRpcRequest(body, handler)

RpcAtRest ==
    rpc = NewRpcRequest([json |-> "invalid", jsonrpc |-> "absent", method |-> "absent",
                         params_valid |-> TRUE], "response")

-----------------------------------------------------------------------------
(* ScopeHierarchy.expand_scopes, one loop iteration at a time *)

\* the orders in which the elements of S can be iterated
Orderings(S) ==
    { q \in [1..Cardinality(S) -> S] : \A i, j \in DOMAIN q : i # j => q[i] # q[j] }

\* a call of expand_scopes(user_scopes) before its first statement; popped
\* records the scopes that popleft has returned
BfsCall(h, user_scopes) ==
    [hierarchy |-> h, user_scopes |-> user_scopes, pc |-> "call",
     to_process |-> <<>>, seen |-> {}, expanded |-> {}, popped |-> <<>>, ret |-> {}]

\* the statements before the while loop; order is the iteration order of
\* the set expanded
expand_begin(b, order) ==
    IF \E s \in b.user_scopes : s \in DOMAIN b.hierarchy /\ "*" \in b.hierarchy[s]
    THEN [b EXCEPT !.expanded = b.user_scopes, !.pc = "done", !.ret = {"*"}]
    ELSE [b EXCEPT !.expanded = b.user_scopes, !.to_process = order,
                   !.seen = b.user_scopes, !.pc = "loop"]

\* the loop body with seen updated when a scope is dequeued and not when
\* it is enqueued
expand_iteration_SeenAtDequeue(b, inherited) ==
    IF b.to_process = <<>>
    THEN [b EXCEPT !.pc = "done", !.ret = b.expanded]
    ELSE LET scope == Head(b.to_process)
             taken == [b EXCEPT !.to_process = Tail(@), !.popped = Append(@, scope),
                                !.seen = @ \cup {scope}]
         IN  IF scope \in DOMAIN b.hierarchy
             THEN IF "*" \in b.hierarchy[scope]
                  THEN [taken EXCEPT !.pc = "done", !.ret = {"*"}]
                  ELSE LET added == SelectSeq(inherited, LAMBDA x : x \notin taken.seen) IN
                       [taken EXCEPT !.to_process = @ \o added,
                                     !.expanded = @ \cup { added[i] : i \in DOMAIN added }]
             ELSE taken

\* the test of the while loop and, when to_process is not empty, one
\* iteration; inherited is self.hierarchy[scope] in its listed order
expand_iteration(b, inherited) ==
    IF b.to_process = <<>>
    THEN [b EXCEPT !.pc = "done", !.ret = b.expanded]
    ELSE LET scope == Head(b.to_process)
             taken == [b EXCEPT !.to_process = Tail(@), !.popped = Append(@, scope)]
         IN  IF scope \in DOMAIN b.hierarchy
             THEN IF "*" \in b.hierarchy[scope]
                  THEN [taken EXCEPT !.pc = "done", !.ret = {"*"}]
                  ELSE LET added == SelectSeq(inherited, LAMBDA x : x \notin b.seen) IN
                       [taken EXCEPT !.to_process = @ \o added,
                                     !.seen = @ \cup { added[i] : i \in DOMAIN added },
                                     !.expanded = @ \cup { added[i] : i \in DOMAIN added }]
             ELSE taken

BfsBegin ==
    /\ bfs.pc = "call"
    /\ \E order \in Orderings(bfs.user_scopes) : bfs' = expand_begin(bfs, order)
    /\ UNCHANGED notBfs

BfsIteration ==
    /\ bfs.pc = "loop"
    /\ LET listed == IF bfs.to_process # <<>> /\ Head(bfs.to_process) \in DOMAIN bfs.hierarchy
                     THEN bfs.hierarchy[Head(bfs.to_process)] ELSE {}
       IN  \E inherited \in Orderings(listed) : bfs' = expand_iteration(bfs, inherited)
    /\ UNCHANGED notBfs

NextBfs ==
    \/ BfsBegin
    \/ BfsIteration

InitBfs ==
    bfs \in { BfsCall(h, S) : h \in WideHierarchies, S \in SUBSET Scopes }

BfsAtRest == bfs = BfsCall(EmptyHierarchy, {})

-----------------------------------------------------------------------------
(* The MCP HTTP endpoint: POST /mcp (mcp_support/mcp_http_server.py) *)

McpBadRequest == 400
McpAccepted == 202
InvalidParamsCode == -32602

FunctionNames == {"f1", "f2"}

\* an entry of the function registry: whether it is a tool of a remote MCP
\* server and whether its schema in _functions is non-empty
FunctionEntries == [is_mcp : BOOLEAN, schema : BOOLEAN]

\* the function registry: name -> entry
FunctionRegistries ==
    UNION { [N -> FunctionEntries] : N \in SUBSET FunctionNames }

\* registry.list_functions()
list_functions(registry) == DOMAIN registry

\* registry.is_mcp_tool(name)
is_mcp_tool(registry, name) == name \in DOMAIN registry /\ registry[name].is_mcp

\* registry.get_handler(name) returns a handler: the registry keeps a handler
\* for every function it holds, local or MCP
has_handler(registry, name) == name \in DOMAIN registry

\* the names in the result of tools/list
tools_list(m) ==
    IF m.expose_handlers
    THEN { function_name \in list_functions(m.registry) :
             /\ ~is_mcp_tool(m.registry, function_name)
             /\ m.registry[function_name].schema }
    ELSE {}

\* the values _validate_mcp_headers accepts; "" is a request without the
\* header
AcceptedVersions == {"1.0", "2025-06-18"}

_validate_mcp_headers(protocol_version) ==
    ~(protocol_version # "" /\ protocol_version \notin AcceptedVersions)

\* the protocolVersion of the initialize result
InitializeVersion == "2024-11-05"

McpMethods == {"tools/list", "tools/call", "initialize", "ping"}

\* a POST /mcp: the MCP-Protocol-Version header, the method, whether the
\* request has an id, params.name, and what the handler does when awaited
McpRequests ==
    [version : {"", "2025-06-18", "2024-11-05"}, method : McpMethods,
     has_id : BOOLEAN, name : FunctionNames, handler : {"returns", "raises"}]

McpResponse(status_code, code, invoked, version) ==
    [status_code |-> status_code, code |-> code, invoked |-> invoked,
     protocolVersion |-> version]

\* handle_mcp_request: the response (code NoError for a result), the tool
\* whose handler was awaited and the protocolVersion of an initialize result.
\* The resources methods and a body that is not JSON reach neither a tool
\* handler nor the header check and are not among the requests.
handle_mcp_request(m, req) ==
    IF ~_validate_mcp_headers(req.version)
    THEN McpResponse(McpBadRequest, NoError, "-", "-")
    ELSE LET invoked == IF req.method = "tools/call" /\ has_handler(m.registry, req.name)
                        THEN req.name ELSE "-"
             code == CASE req.method \in {"tools/list", "initialize"} -> NoError
                       [] req.method = "tools/call" ->
                             IF invoked = "-" THEN InvalidParamsCode
                             ELSE IF req.handler = "raises" THEN InternalErrorCode
                             ELSE NoError
                       [] OTHER -> MethodNotFoundCode
             version == IF req.method = "initialize" THEN InitializeVersion ELSE "-"
         IN  IF req.has_id
             THEN McpResponse(HttpOk, code, invoked, version)
             ELSE McpResponse(McpAccepted, NoError, invoked, "-")

NoMcpRequest ==
    [version |-> "", method |-> "-", has_id |-> FALSE, name |-> "f1", handler |-> "returns"]

\* the server after create_mcp_router; negotiated is the protocolVersion the
\* client was last given by initialize
NewMcpServer(expose_handlers, registry) ==
    [expose_handlers |-> expose_handlers, registry |-> registry, negotiated |-> "-",
     request |-> NoMcpRequest, response |-> McpResponse(HttpOk, NoError, "-", "-")]

McpPost ==
    /\ \E req \in McpRequests :
        LET response == handle_mcp_request(mcph, req) IN
        mcph' = [mcph EXCEPT !.request = req, !.response = response,
                             !.negotiated = IF response.protocolVersion # "-"
                                            THEN response.protocolVersion ELSE @]
    /\ UNCHANGED notMcph

InitMcph ==
    mcph \in { NewMcpServer(e, r) : e \in BOOLEAN, r \in FunctionRegistries }

McphAtRest == mcph = NewMcpServer(TRUE, [n \in {} |-> [is_mcp |-> FALSE, schema |-> TRUE]])

-----------------------------------------------------------------------------
(* Coroutines sharing one StateStorage (context.py) *)

HistoryCap == 100

TaskIds == {"t1", "t2"}

\* the variables and history of a ConversationState
EmptyContent == [variables |-> {}, history |-> <<>>]

\* await on storage.get or storage.set gives control to the event loop only
\* when self._lock is held, and here to every other coroutine at each await
AwaitYields_Always(locked) == TRUE

\* await on storage.get or storage.set: "async with self._lock" returns at
\* once when the lock is free, and the bodies do synchronous dict and file
\* access, so the coroutine is suspended only when the lock is held
AwaitYields(locked) == locked

\* the statements of set_variable and add_to_history between get_or_create
\* and storage.set; task t writes the key t or appends the message t
apply_operation(op, content, t) ==
    IF op = "set_variable"
    THEN [content EXCEPT !.variables = @ \cup {t}]
    ELSE LET appended == Append(content.history, t) IN
         [content EXCEPT !.history = IF Len(appended) > HistoryCap
                                     THEN SliceLast(appended, HistoryCap)
                                     ELSE appended]

\* two coroutines that each run op once on the same context, and a caller
\* of list_contexts. heap holds the ConversationState objects (o0 is the
\* one stored at the start), ref the value of _states[context_id] of an
\* InMemoryStorage, file the context's file of a FileStorage, lock the
\* holder of self._lock, running the coroutine the event loop is running.
NewStore(storage, op, exists) ==
    [storage |-> storage, op |-> op, lock |-> "-", running |-> "-",
     heap |-> [o \in {"o0"} \cup TaskIds |-> EmptyContent],
     ref |-> IF storage = "memory" /\ exists THEN "o0" ELSE "-",
     file |-> [exists |-> storage = "file" /\ exists, content |-> EmptyContent],
     tasks |-> [t \in TaskIds |-> [pc |-> "get", state |-> "-"]],
     lister |-> [pc |-> "idle", user_id |-> FALSE]]

\* what a coroutine that was running does at the end of an await
AfterAwait(s, t) ==
    IF AwaitYields(s.lock # "-") THEN "-" ELSE t

\* get_or_create up to its next await: state = await self.storage.get(...),
\* and the construction of a new ConversationState when there is none.
\* FileStorage.get builds a new object from the file on every call.
TaskGet(t) ==
    /\ cstore.tasks[t].pc = "get"
    /\ cstore.running \in {"-", t}
    /\ cstore.lock = "-"
    /\ LET found == IF cstore.storage = "memory" THEN cstore.ref # "-"
                    ELSE cstore.file.exists
           obj == IF cstore.storage = "memory" /\ found THEN cstore.ref ELSE t
           loaded == IF cstore.storage = "file" /\ found
                     THEN cstore.file.content ELSE EmptyContent
       IN  cstore' = [cstore EXCEPT
                        !.heap = IF obj = t THEN [@ EXCEPT ![t] = loaded] ELSE @,
                        !.tasks[t] = [pc |-> IF found THEN "write" ELSE "set_new",
                                      state |-> obj],
                        !.running = AfterAwait(cstore, t)]
    /\ UNCHANGED notCstore

\* storage.set(state), the lock being free
storage_save(s, obj) ==
    IF s.storage = "memory"
    THEN [s EXCEPT !.ref = obj]
    ELSE [s EXCEPT !.file = [exists |-> TRUE, content |-> s.heap[obj]]]

\* await self.storage.set(state) of get_or_create
TaskSetNew(t) ==
    /\ cstore.tasks[t].pc = "set_new"
    /\ cstore.running \in {"-", t}
    /\ cstore.lock = "-"
    /\ cstore' = [storage_save(cstore, cstore.tasks[t].state) EXCEPT
                     !.tasks[t].pc = "write",
                     !.running = AfterAwait(cstore, t)]
    /\ UNCHANGED notCstore

\* the rest of set_variable or add_to_history: the change of the state
\* object and await self.storage.set(state)
TaskWrite(t) ==
    /\ cstore.tasks[t].pc = "write"
    /\ cstore.running \in {"-", t}
    /\ cstore.lock = "-"
    /\ LET obj == cstore.tasks[t].state
           changed == [cstore EXCEPT !.heap[obj] = apply_operation(cstore.op, @, t)]
       IN  cstore' = [storage_save(changed, obj) EXCEPT
                        !.tasks[t].pc = "done", !.running = "-"]
    /\ UNCHANGED notCstore

\* list_contexts(user_id) up to its return or to an await that suspends it.
\* FileStorage.list_contexts awaits self.get(context_id) for each file when
\* user_id is given, with self._lock held; get then waits for self._lock.
ListContexts ==
    /\ cstore.lister.pc = "idle"
    /\ cstore.running = "-"
    /\ cstore.lock = "-"
    /\ \E user_id \in BOOLEAN :
        IF cstore.storage = "file" /\ user_id /\ cstore.file.exists
        THEN cstore' = [cstore EXCEPT !.lock = "lister",
                           !.lister = [pc |-> "get", user_id |-> user_id]]
        ELSE cstore' = [cstore EXCEPT !.lister = [pc |-> "returned", user_id |-> user_id]]
    /\ UNCHANGED notCstore

NextCstore ==
    \/ \E t \in TaskIds : TaskGet(t)
    \/ \E t \in TaskIds : TaskSetNew(t)
    \/ \E t \in TaskIds : TaskWrite(t)
    \/ ListContexts

InitCstore ==
    cstore \in { NewStore(storage, op, exists) :
                   storage \in {"memory", "file"},
                   op \in {"set_variable", "add_to_history"}, exists \in BOOLEAN }

CstoreAtRest == cstore = NewStore("memory", "set_variable", FALSE)

-----------------------------------------------------------------------------
(* Specifications *)

\* the executor serving one task
Init == InitExec /\ AuthAtRest /\ McpAtRest /\ LlmAtRest /\ RoutingAtRest /\ ExpansionAtRest /\ PmgrAtRest
        /\ HregAtRest /\ CvarsAtRest /\ ChistAtRest /\ CctxAtRest /\ PushAtRest /\ RpcAtRest
        /\ BfsAtRest /\ McphAtRest /\ CstoreAtRest

Spec == Init /\ [][NextExec]_vars

\* the authentication manager serving one request
InitAuthOnly == InitAuth /\ ExecAtRest /\ McpAtRest /\ LlmAtRest /\ RoutingAtRest /\ ExpansionAtRest /\ PmgrAtRest
        /\ HregAtRest /\ CvarsAtRest /\ ChistAtRest /\ CctxAtRest /\ PushAtRest /\ RpcAtRest
        /\ BfsAtRest /\ McphAtRest /\ CstoreAtRest

SpecAuth == InitAuthOnly /\ [][NextAuth]_vars

\* MCP client initialization followed by tool calls
InitMcpOnly == InitMcp /\ ExecAtRest /\ AuthAtRest /\ LlmAtRest /\ RoutingAtRest /\ ExpansionAtRest /\ PmgrAtRest
        /\ HregAtRest /\ CvarsAtRest /\ ChistAtRest /\ CctxAtRest /\ PushAtRest /\ RpcAtRest
        /\ BfsAtRest /\ McphAtRest /\ CstoreAtRest

SpecMcp == InitMcpOnly /\ [][NextMcp]_vars

\* one llm_with_functions call
InitLlmOnly == InitLlm /\ ExecAtRest /\ AuthAtRest /\ McpAtRest /\ RoutingAtRest /\ ExpansionAtRest /\ PmgrAtRest
        /\ HregAtRest /\ CvarsAtRest /\ ChistAtRest /\ CctxAtRest /\ PushAtRest /\ RpcAtRest
        /\ BfsAtRest /\ McphAtRest /\ CstoreAtRest

SpecLlm == InitLlmOnly /\ [][NextLlm]_vars

\* one call of _determine_skill_and_routing
InitRoutingOnly == InitRouting /\ ExecAtRest /\ AuthAtRest /\ McpAtRest /\ LlmAtRest /\ ExpansionAtRest /\ PmgrAtRest
        /\ HregAtRest /\ CvarsAtRest /\ ChistAtRest /\ CctxAtRest /\ PushAtRest /\ RpcAtRest
        /\ BfsAtRest /\ McphAtRest /\ CstoreAtRest

SpecRouting == InitRoutingOnly /\ [][SelectCapability]_vars

\* repeated scope expansion
InitExpansionOnly ==
    InitExpansion /\ ExecAtRest /\ AuthAtRest /\ McpAtRest /\ LlmAtRest /\ RoutingAtRest
        /\ PmgrAtRest /\ HregAtRest /\ CvarsAtRest /\ ChistAtRest /\ CctxAtRest /\ PushAtRest
        /\ RpcAtRest /\ BfsAtRest /\ McphAtRest /\ CstoreAtRest

SpecExpansion == InitExpansionOnly /\ [][Expand]_vars

\* discovery of the entry-point plugins
InitPmgrOnly ==
    InitPmgr /\ ExecAtRest /\ AuthAtRest /\ McpAtRest /\ LlmAtRest /\ RoutingAtRest
        /\ ExpansionAtRest /\ HregAtRest /\ CvarsAtRest /\ ChistAtRest /\ CctxAtRest
        /\ PushAtRest /\ RpcAtRest /\ BfsAtRest /\ McphAtRest /\ CstoreAtRest

SpecPmgr == InitPmgrOnly /\ [][NextPmgr]_vars

\* the handler registry: registrations, global application, cache resets, integration
InitHregOnly ==
    InitHreg /\ ExecAtRest /\ AuthAtRest /\ McpAtRest /\ LlmAtRest /\ RoutingAtRest
        /\ ExpansionAtRest /\ PmgrAtRest /\ CvarsAtRest /\ ChistAtRest /\ CctxAtRest
        /\ PushAtRest /\ RpcAtRest /\ BfsAtRest /\ McphAtRest /\ CstoreAtRest

SpecHreg == InitHregOnly /\ [][NextHreg]_vars

\* the variables of one ConversationState under writes, reads, cleanups and time
InitCvarsOnly ==
    InitCvars /\ ExecAtRest /\ AuthAtRest /\ McpAtRest /\ LlmAtRest /\ RoutingAtRest
        /\ ExpansionAtRest /\ PmgrAtRest /\ HregAtRest /\ ChistAtRest /\ CctxAtRest
        /\ PushAtRest /\ RpcAtRest /\ BfsAtRest /\ McphAtRest /\ CstoreAtRest

SpecCvars == InitCvarsOnly /\ [][NextCvars]_vars

\* the history of one ConversationState under add_message
InitChistOnly ==
    InitChist /\ ExecAtRest /\ AuthAtRest /\ McpAtRest /\ LlmAtRest /\ RoutingAtRest
        /\ ExpansionAtRest /\ PmgrAtRest /\ HregAtRest /\ CvarsAtRest /\ CctxAtRest
        /\ PushAtRest /\ RpcAtRest /\ BfsAtRest /\ McphAtRest /\ CstoreAtRest

SpecChist == InitChistOnly /\ [][AddMessage]_vars

\* a ConversationContext over either storage backend under writes and reads
InitCctxOnly ==
    InitCctx /\ ExecAtRest /\ AuthAtRest /\ McpAtRest /\ LlmAtRest /\ RoutingAtRest
        /\ ExpansionAtRest /\ PmgrAtRest /\ HregAtRest /\ CvarsAtRest /\ ChistAtRest
        /\ PushAtRest /\ RpcAtRest /\ BfsAtRest /\ McphAtRest /\ CstoreAtRest

SpecCctx == InitCctxOnly /\ [][NextCctx]_vars

\* one message/send request through CustomRequestHandler
InitPushOnly ==
    InitPush /\ ExecAtRest /\ AuthAtRest /\ McpAtRest /\ LlmAtRest /\ RoutingAtRest
        /\ ExpansionAtRest /\ PmgrAtRest /\ HregAtRest /\ CvarsAtRest /\ ChistAtRest /\ CctxAtRest
        /\ RpcAtRest /\ BfsAtRest /\ McphAtRest /\ CstoreAtRest

SpecPush == InitPushOnly /\ [][NextPush]_vars

\* one request to POST /
InitRpcOnly ==
    InitRpc /\ ExecAtRest /\ AuthAtRest /\ McpAtRest /\ LlmAtRest /\ RoutingAtRest
        /\ ExpansionAtRest /\ PmgrAtRest /\ HregAtRest /\ CvarsAtRest /\ ChistAtRest /\ CctxAtRest /\ PushAtRest
        /\ BfsAtRest /\ McphAtRest /\ CstoreAtRest

SpecRpc == InitRpcOnly /\ [][JsonRpcEndpoint]_vars

\* one call of expand_scopes run to its end: the call is a single coroutine-free
\* function, so every step that is enabled is taken
InitBfsOnly ==
    InitBfs /\ ExecAtRest /\ AuthAtRest /\ McpAtRest /\ LlmAtRest /\ RoutingAtRest
        /\ ExpansionAtRest /\ PmgrAtRest /\ HregAtRest /\ CvarsAtRest /\ ChistAtRest /\ CctxAtRest /\ PushAtRest /\ RpcAtRest
        /\ McphAtRest /\ CstoreAtRest

SpecBfs == InitBfsOnly /\ [][NextBfs]_vars /\ WF_vars(NextBfs)

\* requests to the MCP HTTP endpoint alone
InitMcphOnly ==
    InitMcph /\ ExecAtRest /\ AuthAtRest /\ McpAtRest /\ LlmAtRest /\ RoutingAtRest
        /\ ExpansionAtRest /\ PmgrAtRest /\ HregAtRest /\ CvarsAtRest /\ ChistAtRest /\ CctxAtRest /\ PushAtRest /\ RpcAtRest /\ BfsAtRest
        /\ CstoreAtRest

SpecMcph == InitMcphOnly /\ [][McpPost]_vars

\* coroutines on one StateStorage alone
InitCstoreOnly ==
    InitCstore /\ ExecAtRest /\ AuthAtRest /\ McpAtRest /\ LlmAtRest /\ RoutingAtRest
        /\ ExpansionAtRest /\ PmgrAtRest /\ HregAtRest /\ CvarsAtRest /\ ChistAtRest /\ CctxAtRest /\ PushAtRest /\ RpcAtRest /\ BfsAtRest /\ McphAtRest

SpecCstore == InitCstoreOnly /\ [][NextCstore]_vars

-----------------------------------------------------------------------------
(* Properties of the executor *)

TerminalIdx == {i \in 1..Len(events) : IsTerminalEvent(events[i])}

LastEvent == events[Len(events)]

\* execute() has returned and no cancel() call was made for the task
ExecuteAlone == pc = "done" /\ cancels = <<>>

\* C1: when execute has returned, whatever the handler or dispatcher returned
\* or raised, the task's events contain exactly one terminal status and it is
\* the last event.
C1_ExactlyOneTerminal ==
    ExecuteAlone =>
        /\ Cardinality(TerminalIdx) = 1
        /\ IsTerminalEvent(LastEvent)

\* C2: a canceled status emitted by cancel() is the last event of the task:
\* execute enqueues nothing after it.
C2_CanceledIsLast ==
    \A i \in 1..Len(events) :
        (events[i].by = "cancel" /\ events[i].state = "canceled") => i = Len(events)

\* C7: an exception raised inside execute after the working status ends the
\* task as rejected when its message carries the marker and as failed for
\* every other exception.
C7_ExceptionTerminal ==
    (ExecuteAlone /\ exc # NoExc) =>
        /\ events # <<>>
        /\ LastEvent.kind = "status"
        /\ LastEvent.state = IF HasMarker(exc.msg) THEN "rejected" ELSE "failed"

\* C8: in direct routing, when the handler raised or no handler is registered
\* for the selected capability, the task's terminal status is failed.
C8_DirectFailure ==
    (ExecuteAlone /\ hres \in {"raised", "nohandler"}) =>
        /\ LastEvent.kind = "status"
        /\ LastEvent.state = "failed"

\* C9: the events enqueued by a finished execute are, in order: the task
\* event if this call created the task, the working status, zero or more
\* artifact updates, one terminal status.
C9_EventOrder ==
    ExecuteAlone =>
        LET k == IF created THEN 1 ELSE 0
            n == Len(events)
        IN  /\ n >= k + 2
            /\ created => events[1].kind = "task"
            /\ events[k + 1].kind = "status" /\ events[k + 1].state = "working"
            /\ \A i \in (k + 2)..(n - 1) : events[i].kind = "artifact-update"
            /\ IsTerminalEvent(events[n])

ByExecute(e) == e.by = "execute"

\* the order part of C9 alone: at every moment, the events enqueued by
\* execute so far are a prefix of: the task event if this call created the
\* task, the working status, artifact updates with increasing chunk numbers
\* (the add_artifact one last), at most one terminal status.
C9_OrderOfEmitted ==
    LET ev == SelectSeq(events, ByExecute)
        k == IF created THEN 1 ELSE 0
    IN  \A i \in 1..Len(ev) :
            /\ ev[i].kind = "task" <=> (created /\ i = 1)
            /\ (ev[i].kind = "status" /\ ev[i].state = "working") <=> i = k + 1
            /\ IsTerminalEvent(ev[i]) => i = Len(ev)
            /\ \A j \in 1..(i - 1) :
                  (ev[i].kind = "artifact-update" /\ ev[j].kind = "artifact-update")
                      => (ev[j].n # 0 /\ (ev[i].n = 0 \/ ev[j].n < ev[i].n))

FinishedCancels == {i \in 1..Len(cancels) : cancels[i].outcome # "pending"}

CancelEvents == {i \in 1..Len(events) : events[i].by = "cancel"}

Rejected(c) == c.outcome = "error" /\ c.emitted = 0

Canceled(c) == c.outcome = "canceled" /\ c.emitted = 1

\* C10 as claimed: a finished cancel() of a terminal task is rejected and
\* emits nothing; a finished cancel() of a non-terminal task emits one
\* canceled status and returns the task canceled, with or without a
\* dispatcher that supports cancellation.
C10_CancelAsClaimed ==
    \A i \in FinishedCancels :
        /\ cancels[i].snap \in TerminalStates => Rejected(cancels[i])
        /\ cancels[i].snap \in NonTerminalStates => Canceled(cancels[i])

\* C10 amended: a finished cancel() of a terminal task is rejected and emits
\* nothing; a finished cancel() of a non-terminal task emits one canceled
\* status and returns the task canceled when the dispatcher has cancel_task
\* and that call succeeds, and is rejected without emitting anything
\* otherwise.  The only events cancel() enqueues are those canceled statuses.
C10_CancelWhenSupported ==
    /\ \A i \in FinishedCancels :
        /\ cancels[i].snap \in TerminalStates => Rejected(cancels[i])
        /\ cancels[i].snap \in NonTerminalStates =>
              IF SupportsCancel(cfg) /\ cancels[i].why # "cancel_failed"
              THEN Canceled(cancels[i])
              ELSE Rejected(cancels[i])
    /\ \A j \in CancelEvents : events[j].kind = "status" /\ events[j].state = "canceled"
    /\ Cardinality(CancelEvents) =
          Cardinality({i \in 1..Len(cancels) : cancels[i].outcome = "canceled"})

\* witness of C10: a cancel() of a working task has emitted canceled, and a
\* later cancel() of the then terminal task was rejected
C10_Witness ==
    /\ Len(cancels) = 2
    /\ cancels[1].snap = "working" /\ Canceled(cancels[1])
    /\ cancels[2].snap \in TerminalStates /\ Rejected(cancels[2])

\* execute took the branch that calls _process_streaming
Streamed == route[2] = "ai" /\ cfg.dispatcher # "none" /\ cfg.supports_streaming

\* C11: when a stream of n >= 0 text or structured chunks has been processed,
\* the events after the working status are n artifact updates with
\* append=true and lastChunk=false, one per chunk in chunk order, then
\* exactly one artifact update with lastChunk=true, then the terminal status.
C11_StreamEvents ==
    (ExecuteAlone /\ Streamed /\ exc = NoExc /\ nparts = chunkCount) =>
        LET k == IF created THEN 2 ELSE 1
            n == chunkCount
        IN  /\ Len(events) = k + n + 2
            /\ \A i \in 1..n :
                  /\ events[k + i].kind = "artifact-update"
                  /\ events[k + i].append = "true"
                  /\ events[k + i].last = "false"
                  /\ events[k + i].n = i
            /\ events[k + n + 1].kind = "artifact-update"
            /\ events[k + n + 1].last = "true"
            /\ IsTerminalEvent(events[k + n + 2])

\* the capability result that execute has turned into a response: what the
\* handler returned on the direct path, what process_task returned on the
\* dispatcher path
CapabilityResult == IF hres \in ResultKinds THEN hres ELSE result

Responded ==
    /\ ExecuteAlone /\ exc = NoExc
    /\ hres \in ResultKinds \/ (hres = "none" /\ result \in ResultKinds)

ResultArtifacts ==
    {i \in 1..Len(events) : events[i].kind = "artifact-update" /\ events[i].name = "result"}

\* the parts the result shaping rules give for a capability result
ShapedParts(r) ==
    CASE r \in {"str", "emptystr"} -> <<TextPart("self", r)>>
      [] r = "dictsum" -> <<TextPart("summary", r), DataPart("self", r)>>
      [] r \in {"dict", "emptydict"} -> <<DataPart("self", r)>>
      [] r \in {"list", "emptylist"} -> <<DataPart("items", r)>>
      [] OTHER -> <<TextPart("self", Stringify(r))>>

\* C26: for every capability result r that execute turns into a response, on
\* the direct and on the dispatcher path, exactly one artifact named
\* "<agentName>-result" is added before the completed status, and its parts
\* are those the result shaping rules give for r
C26_ResultArtifact ==
    Responded =>
        /\ Cardinality(ResultArtifacts) = 1
        /\ \A i \in ResultArtifacts :
            /\ events[i].parts = ShapedParts(CapabilityResult)
            /\ \E j \in i + 1..Len(events) :
                   events[j].kind = "status" /\ events[j].state = "completed"

-----------------------------------------------------------------------------
(* Properties of the MCP tool registration *)

\* C3: a registered wrapper invokes client.call_tool only when every scope
\* the tool was registered with is held by the current AuthContext; with no
\* current AuthContext no required scope is held.
C3_CallOnlyWithScopes ==
    call.outcome = "called" =>
        \A i \in 1..Len(funcReg[call.fn].scopes) :
            /\ call.auth.present
            /\ funcReg[call.fn].scopes[i] \in call.auth.scopes

ConfiguredToolScopes == _extract_tool_scopes_from_servers(servers)

HasScopeEntry(server_name, tool_name) ==
    Prefixed(server_name, tool_name) \in DOMAIN ConfiguredToolScopes

\* C4: at every point of MCP client initialization and after it, every tool
\* in the function registry or in the capability registry has an entry for
\* its prefixed name "<server>:<tool>" in tool_scopes, and carries the scopes
\* of that entry.
C4_FailClosed ==
    /\ \A k \in DOMAIN funcReg :
          /\ HasScopeEntry(funcReg[k].server, funcReg[k].original)
          /\ funcReg[k].scopes =
                ConfiguredToolScopes[Prefixed(funcReg[k].server, funcReg[k].original)]
    /\ \A k \in DOMAIN capReg :
          /\ HasScopeEntry(capReg[k].server, capReg[k].original)
          /\ capReg[k].scopes =
                ConfiguredToolScopes[Prefixed(capReg[k].server, capReg[k].original)]

\* witness of C4: initialization has finished, a remote tool without a
\* tool_scopes entry was reported, and a tool reported before it is registered
C4_Witness ==
    /\ mcpPc.phase = "ready"
    /\ DOMAIN funcReg # {}
    /\ DOMAIN capReg # {}
    /\ \E i \in DOMAIN available : ~HasScopeEntry(available[i].server, available[i].name)

RegisteredIn(reg, tool) ==
    \E k \in DOMAIN reg : reg[k].server = tool.server /\ reg[k].original = tool.name

\* C16: when initialization has finished, every reported tool that has a
\* tool_scopes entry is in the function registry and in the capability
\* registry, wherever it stands in the tool list and whether or not other
\* reported tools lack an entry (tool lists whose tools have pairwise
\* different names, so that no two tools share a registry key).
C16_ConfiguredToolsRegistered ==
    (mcpPc.phase = "ready"
        /\ \A i, j \in DOMAIN available : i # j => available[i].name # available[j].name) =>
        \A i \in DOMAIN available :
            HasScopeEntry(available[i].server, available[i].name) =>
                /\ RegisteredIn(funcReg, available[i])
                /\ RegisteredIn(capReg, available[i])

-----------------------------------------------------------------------------
(* Properties of the authentication manager *)

\* the scopes of the credential that the accepting provider returned
HeldScopes == authReq.providers[authOut.provider].scopes

\* C5: with an empty hierarchy, a context whose credential does not hold the
\* wildcard is granted, by has_scope, require_scope and validate_scope alike,
\* no scope that the credential does not hold.
C5_NoImplicitInheritance ==
    (hierarchy = EmptyHierarchy /\ check # NoCheck /\ "*" \notin HeldScopes) =>
        /\ check.has => check.scope \in HeldScopes
        /\ check.require = "ok" => check.scope \in HeldScopes
        /\ check.validate => check.scope \in HeldScopes

Satisfies(expanded, required) ==
    \A r \in required : r \in expanded \/ "*" \in expanded

\* the first provider that accepts the request, 0 when none does
FirstAccepting(provs) ==
    IF \E i \in DOMAIN provs : provs[i].kind = "accept"
    THEN CHOOSE i \in DOMAIN provs :
            /\ provs[i].kind = "accept"
            /\ \A j \in 1..(i - 1) : provs[j].kind # "accept"
    ELSE 0

\* C6: authenticate_request returns a context only when a provider accepted
\* the request and the expansion of that credential's scopes satisfies every
\* required scope, and the context carries that expansion; it raises 401
\* when no provider accepts, and 403 when the accepting provider's expanded
\* scopes miss a required scope.
C6_AuthenticateOutcome ==
    authOut # AuthNone =>
        LET provs == _initialize_providers(authReq.providers)
            a == FirstAccepting(provs)
        IN  /\ authOut.status = "ok" =>
                  /\ auth_enabled
                  /\ a # 0 /\ authOut.provider = a
                  /\ Satisfies(expand_scopes(hierarchy, provs[a].scopes), authReq.required)
                  /\ authOut.scopes = expand_scopes(hierarchy, provs[a].scopes)
            /\ a = 0 => authOut.status = "401"
            /\ (auth_enabled /\ a # 0
                  /\ ~Satisfies(expand_scopes(hierarchy, provs[a].scopes), authReq.required))
                  => authOut.status = "403"

\* witness of C6: the provider accepted and the required scope is granted
\* by the hierarchy only
C6_Witness ==
    /\ authOut.status = "ok"
    /\ authOut.provider = 1
    /\ "*" \notin authOut.scopes
    /\ \E r \in authReq.required : r \notin HeldScopes /\ r \in authOut.scopes

\* C17: for every hierarchy and every scope set, expanding the result of
\* expand_scopes again gives the same set.
C17_ExpandIdempotent ==
    Len(expansion.runs) >= 2 => expansion.runs[2] = expansion.runs[1]

\* C18: when the expansion of a credential's scopes reaches a parent whose
\* children include "*" (the credential itself not holding "*"), every
\* scope check on the context returned by authenticate_request succeeds,
\* whatever the scope asked for: validate_scope, has_scope and require_scope.
C18_WildcardGrantsAll ==
    (check # NoCheck /\ "*" \notin HeldScopes /\ "*" \in authOut.scopes) =>
        /\ check.validate
        /\ check.has
        /\ check.require = "ok"

\* C15: with several auth types configured, the providers of the configured
\* types are consulted in configured order and the first that accepts the
\* request decides: a request that some configured type accepts is
\* authenticated with that type's scopes (expanded), even when the types
\* before it decline.
C15_FirstAcceptingType ==
    (authOut # AuthNone /\ auth_enabled /\ authReq.required = {}) =>
        LET a == FirstAccepting(authReq.providers) IN
        (a # 0 /\ \A j \in 1..(a - 1) : authReq.providers[j].kind = "decline") =>
            /\ authOut.status = "ok"
            /\ authOut.scopes = expand_scopes(hierarchy, authReq.providers[a].scopes)

-----------------------------------------------------------------------------
(* Properties of LLM function calling *)

\* C12: a call that executed function calls asks the LLM again with the
\* assistant message and the function-role result messages appended, and
\* what it finally returns is the text of a response without function calls
\* (the failed outcome after max_iterations rounds aside, which the code
\* does not have).
C12_FunctionLoop ==
    (llm.pc = "returned" /\ llm.ret # "raise") =>
        /\ llm.response.function_calls = <<>>
        /\ llm.ret = "content"
        /\ llm.executed # <<>> =>
              /\ llm.completions > 1
              /\ Len(llm.chat_messages) >= 2 + 1 + Len(llm.executed)

\* an exception class that derives from Exception
RaisedException(o) == o \in {"PermissionError", "RuntimeError"}

\* C13: an exception (deriving from Exception) raised by a function call
\* does not leave llm_with_functions: it is recorded as an error result at
\* the call's position, the calls are executed in the order of
\* response.function_calls, and unless a call is cancelled every call of the
\* turn is executed before the function returns.
C13_CallErrorsContained ==
    LET calls == llm.response.function_calls
        ex == llm.executed
        cancelled == \E i \in DOMAIN ex : ex[i].outcome = "CancelledError"
    IN  /\ Len(ex) <= Len(calls)
        /\ \A i \in DOMAIN ex :
              /\ ex[i].idx = i /\ ex[i].name = calls[i]
              /\ RaisedException(ex[i].outcome) =>
                    /\ i \in DOMAIN llm.function_results
                    /\ llm.function_results[i] = "error"
        /\ ~cancelled => Len(llm.function_results) = Len(ex)
        /\ (llm.pc = "returned" /\ llm.completions > 0 /\ calls # <<>> /\ ~cancelled) =>
              /\ Len(ex) = Len(calls)
              /\ (\A i \in DOMAIN ex : ex[i].outcome # "nonstr") => llm.ret # "raise"

\* witness of C13: the first call of a turn raised PermissionError, the
\* second call ran and returned, and the function returned the results
C13_Witness ==
    /\ llm.pc = "returned"
    /\ Len(llm.executed) = 2
    /\ llm.executed[1].outcome = "PermissionError"
    /\ llm.executed[2].outcome = "str"
    /\ llm.function_results = <<"error", "str">>
    /\ llm.ret \in {"results", "content+results"}

-----------------------------------------------------------------------------
(* Properties of routing *)

\* C14: the result is (c, direct) for the first skill c in configured order
\* whose routing mode is direct and which has a keyword occurring
\* case-insensitively in the text or a compiling pattern that matches it
\* case-insensitively (a pattern that does not compile is skipped); skills
\* in ai mode are never returned by matching; with no such skill, or an
\* empty text, the result is (fallback_skill, default_routing_mode).
C14_SelectCapability ==
    routing.out # <<>> =>
        LET t == routing.user_input
            sk == routing.skills
            Same(a, b) == str_lower(<<a>>) = str_lower(<<b>>)
            At(w, off) == /\ off + Len(w) <= Len(t)
                          /\ \A j \in 1..Len(w) : Same(w[j], t[off + j])
            Occurs(w) == \E off \in 0..Len(t) : At(w, off)
            Matches(p) == \/ p.kind = "literal" /\ Occurs(p.text)
                          \/ p.kind = "anchored" /\ At(p.text, 0)
            Hit(i) == /\ sk[i].routing_mode = "direct"
                      /\ \/ \E k \in DOMAIN sk[i].keywords : Occurs(sk[i].keywords[k])
                         \/ \E p \in DOMAIN sk[i].patterns : Matches(sk[i].patterns[p])
        IN  IF t # <<>> /\ \E i \in DOMAIN sk : Hit(i)
            THEN \E i \in DOMAIN sk :
                    /\ Hit(i)
                    /\ \A j \in 1..(i - 1) : ~Hit(j)
                    /\ routing.out = <<sk[i].skill_id, "direct">>
            ELSE routing.out = <<routing.fallback_skill, routing.default_routing_mode>>

\* witness of C14: the first skill is in ai mode and has a keyword that
\* occurs in the text; the second is direct, none of its keywords occurs,
\* its first pattern does not compile and its second matches only when case
\* is ignored; the second skill is selected
C14_Witness ==
    /\ Len(routing.skills) = 2
    /\ routing.out = <<"help", "direct">>
    /\ routing.skills[1].routing_mode = "ai"
    /\ routing.skills[1].keywords # <<>>
    /\ routing.user_input = <<"a", "b">>
    /\ routing.skills[2].keywords = <<>>
    /\ routing.skills[2].patterns[1].kind = "invalid"
    /\ routing.default_routing_mode = "ai"

-----------------------------------------------------------------------------
(* Properties of the plugin manager *)

\* the first registration of capability id c
FirstRegistration(c) ==
    pmgr.registrations[CHOOSE k \in DOMAIN pmgr.registrations :
                          /\ pmgr.registrations[k].id = c
                          /\ \A j \in 1..(k - 1) : pmgr.registrations[j].id # c]

\* C19: when every plugin returns a CapabilityInfo, each capability id is
\* mapped, in capabilities, capability_to_plugin and capability_hooks alike,
\* to the plugin that registered it first; a later registration of the same
\* id changes nothing.
C19_FirstRegistrationWins ==
    (\A j \in DOMAIN pmgr.entry_points :
        pmgr.entry_points[j].load = "ok" /\ pmgr.entry_points[j].cap.kind = "info") =>
        \A c \in DOMAIN pmgr.capability_to_plugin :
            /\ pmgr.capability_to_plugin[c] = FirstRegistration(c).plugin
            /\ pmgr.capability_hooks[c] = FirstRegistration(c).plugin
            /\ pmgr.capabilities[c] = FirstRegistration(c).info

\* C20: once a plugin whose register_capability returns an invalid result
\* has been processed, its recorded status is ERROR and no capability is
\* registered for it.
C20_InvalidResultMarksError ==
    \A j \in 1..(pmgr.i - 1) :
        (pmgr.entry_points[j].load = "ok" /\ pmgr.entry_points[j].cap.kind = "invalid") =>
            /\ pmgr.plugins[PluginNames[j]] = "error"
            /\ \A c \in DOMAIN pmgr.capability_to_plugin :
                  pmgr.capability_to_plugin[c] # PluginNames[j]

\* the loop of _load_entry_point_plugins is over
DiscoveryEnded == pmgr.i > Len(pmgr.entry_points) \/ pmgr.aborted

Processed(j) ==
    /\ PluginNames[j] \in DOMAIN pmgr.plugins
    /\ pmgr.plugins[PluginNames[j]] = "loaded"

\* C35: an entry point whose loading raises is recorded with status ERROR,
\* and every entry point after it is still loaded
C35_LoadFailureIsolated ==
    DiscoveryEnded =>
        \A j \in DOMAIN pmgr.entry_points :
            pmgr.entry_points[j].load = "raise" =>
                /\ PluginNames[j] \in DOMAIN pmgr.plugins
                /\ pmgr.plugins[PluginNames[j]] = "error"
                /\ \A k \in (j + 1)..Len(pmgr.entry_points) :
                      pmgr.entry_points[k].load = "ok" => Processed(k)

\* C36: a reload_plugin call that returned False has left pm, capabilities,
\* capability_to_plugin and capability_hooks as they were
C36_FailedReloadKeepsRegistry ==
    pmgr.reload.ret = "False" =>
        /\ pmgr.pm = pmgr.reload.before.pm
        /\ pmgr.capabilities = pmgr.reload.before.capabilities
        /\ pmgr.capability_to_plugin = pmgr.reload.before.capability_to_plugin
        /\ pmgr.capability_hooks = pmgr.reload.before.capability_hooks

-----------------------------------------------------------------------------
(* Properties of the handler registry *)

\* get_handler(skill_id): the registered handler, if any
HasHandler(skill_id) == skill_id \in DOMAIN hreg.handlers

\* how many wrappers of one kind surround the handler
CountLayer(handler, layer) ==
    Cardinality({i \in 1..Len(handler.layers) : handler.layers[i] = layer})

\* C21: once integrate_plugins_with_handlers has run, a discovered capability
\* has a plugin handler only if its id or its plugin's name is in the agent
\* config's plugins list, an empty or unloadable list included
C21_OnlyListedCapabilities ==
    hreg.integrated =>
        \A c \in DOMAIN Discovered :
            (HasHandler(c) /\ hreg.handlers[c].origin = "plugin")
                => (hreg.plugins.loaded
                    /\ (c \in hreg.plugins.ids \/ Discovered[c] \in hreg.plugins.ids))

\* C29: whatever registrations, global applications and cache resets have run,
\* every handler is wrapped by the middleware chain at most once and by the
\* state wrapper at most once
C29_WrappedAtMostOnce ==
    \A k \in DOMAIN hreg.handlers :
        /\ CountLayer(hreg.handlers[k], "mw") <= 1
        /\ CountLayer(hreg.handlers[k], "state") <= 1

\* C30: in a handler that has both, the middleware chain is outside the state
\* wrapper
C30_MiddlewareOutsideState ==
    \A k \in DOMAIN hreg.handlers :
        \A i, j \in 1..Len(hreg.handlers[k].layers) :
            (hreg.handlers[k].layers[i] = "mw" /\ hreg.handlers[k].layers[j] = "state")
                => i < j

-----------------------------------------------------------------------------
(* Properties of the conversation state's variables *)

\* the last read was of a key whose last completed write gave a ttl
ReadOfTtlWrite == cvars.read.key # "none" /\ cvars.read.value # "none" /\ cvars.read.t # NoTtl

\* what the claim expects of the last read
ReadAsExpected ==
    IF cvars.read.at > cvars.read.u + cvars.read.t
    THEN cvars.read.result = "default"
    ELSE cvars.read.result = cvars.read.value

C25_VersionsIncrease ==
    \A k \in Keys :
        \A i, j \in 1..Len(cvars.versions[k]) :
            i < j => cvars.versions[k][i] < cvars.versions[k][j]

-----------------------------------------------------------------------------
(* Properties of the conversation history *)

\* C23: after every add_message the history holds at most max_history_size
\* messages, for every allowed max_history_size and both values of
\* auto_summarize, and they are the most recently added ones in the order
\* they were added
C23_HistoryBounded ==
    /\ Len(chist.history) <= chist.max_history_size
    /\ chist.history = SliceLast(chist.added, Len(chist.history))

\* C39: after any sequence of add_message calls, len(history) +
\* archived_messages is the number of messages ever added, so the
\* total_messages of get_summary_stats() is that number
C39_TotalIsAdded ==
    /\ Len(chist.history) + chist.archived_messages = Len(chist.added)
    /\ get_summary_stats(chist).total_messages = Len(chist.added)

\* a summarising history that has archived messages and kept others
C39_Witness ==
    /\ chist.auto_summarize
    /\ chist.archived_messages > 0
    /\ chist.history # <<>>
    /\ Len(chist.added) = MaxMessages

-----------------------------------------------------------------------------
(* Properties of the conversation context manager *)

\* C24: once set_variable(ctx, k, v) has completed, get_variable(ctx, k)
\* returns v until the next write to k in that context, whatever is written
\* to other keys or other contexts in between
C24_ReadsLastWrite ==
    cctx.read.written # "none" => cctx.read.result = cctx.read.written

-----------------------------------------------------------------------------
(* Properties of message/send with a push configuration *)

\* C28: a failure while storing the push configuration or delivering the
\* initial notification for a new task never changes the outcome of
\* message/send: the caller receives the task the executor produced and no
\* error is surfaced
C28_PushFailureContained ==
    (push.pc = "done" /\ IsTask(push.result)) => push.outcome = push.result

-----------------------------------------------------------------------------
(* Properties of the JSON-RPC endpoint *)

ValidEnvelope ==
    rpc.body.json = "object" /\ rpc.body.jsonrpc = "2.0" /\ rpc.body.method # "absent"

\* C27: a body that is not valid JSON, is not an object or lacks jsonrpc
\* "2.0" is answered with -32600; a valid envelope is answered with -32601
\* exactly when its method is not a supported one; -32603 is given only for
\* internal errors; the HTTP status is 200 throughout
C27_ErrorCodes ==
    rpc.answered =>
        /\ rpc.response.status = HttpOk
        /\ (rpc.body.json # "object" \/ rpc.body.jsonrpc # "2.0")
               => rpc.response.code = InvalidRequestCode
        /\ ValidEnvelope =>
               (rpc.response.code = MethodNotFoundCode
                    <=> rpc.body.method \notin SupportedMethods)
        /\ rpc.response.code = InternalErrorCode =>
               (ValidEnvelope /\ rpc.handler = "raises")

-----------------------------------------------------------------------------
(* Properties of ScopeHierarchy.expand_scopes *)

\* the scopes reachable from S through parent -> children edges, S included
RECURSIVE ReachableFrom(_, _)
ReachableFrom(h, S) ==
    LET next == S \cup UNION { h[s] : s \in S \cap DOMAIN h } IN
    IF next = S THEN S ELSE ReachableFrom(h, next)

WildcardReachable(h, S) ==
    \E s \in ReachableFrom(h, S) : s \in DOMAIN h /\ "*" \in h[s]

\* the argument of the i-th expansion of a run
ExpandArgument(i) ==
    IF i = 1 THEN expansion.user_scopes ELSE expansion.runs[i - 1]

\* C31: expand_scopes(S) is {"*"} when a scope reachable from S has "*"
\* among its children, and otherwise it is exactly the set of scopes
\* reachable from S
C31_ExpandIsReachability ==
    \A i \in DOMAIN expansion.runs :
        expansion.runs[i] =
            IF WildcardReachable(expansion.hierarchy, ExpandArgument(i))
            THEN {"*"}
            ELSE ReachableFrom(expansion.hierarchy, ExpandArgument(i))

\* an expansion through two levels of a hierarchy without a wildcard
C31_Witness ==
    /\ expansion.runs # <<>>
    /\ expansion.user_scopes = {"admin"}
    /\ "admin" \in DOMAIN expansion.hierarchy
    /\ expansion.hierarchy["admin"] = {"files:read"}
    /\ expansion.runs[1] = {"admin", "files:read", "files:write"}

\* no scope is returned by popleft twice
DequeuedOnce ==
    \A i, j \in DOMAIN bfs.popped : i # j => bfs.popped[i] # bfs.popped[j]

\* C32: expand_scopes terminates for every finite hierarchy, cycles and
\* self-loops included, and dequeues each scope at most once
C32_TerminatesDequeuingOnce ==
    /\ []DequeuedOnce
    /\ <>(bfs.pc = "done")

\* a call that has returned after walking around the cycle admin ->
\* files:read -> admin
C32_Witness ==
    /\ bfs.pc = "done"
    /\ DOMAIN bfs.hierarchy = {"admin", "files:read"}
    /\ bfs.hierarchy["admin"] = {"files:read"}
    /\ bfs.hierarchy["files:read"] = {"admin"}
    /\ bfs.popped = <<"admin", "files:read">>

-----------------------------------------------------------------------------
(* Properties of the MCP HTTP endpoint *)

\* C37: tools/call invokes a handler only for a tool that tools/list would
\* return at that moment: a locally registered, non-MCP function, and only
\* when expose_handlers is true
C37_CallsOnlyListedTools ==
    mcph.response.invoked # "-" => mcph.response.invoked \in tools_list(mcph)

\* C38: a request whose MCP-Protocol-Version header carries the
\* protocolVersion that initialize returned is never answered with HTTP 400
C38_NegotiatedVersionAccepted ==
    (mcph.negotiated # "-" /\ mcph.request.version = mcph.negotiated) =>
        mcph.response.status_code # McpBadRequest

-----------------------------------------------------------------------------
(* Properties of the coroutines sharing a StateStorage *)

\* the ConversationState that storage.get would return
StoredContent ==
    IF cstore.storage = "memory" THEN cstore.heap[cstore.ref] ELSE cstore.file.content

\* the write of task t is in the stored state
WriteVisible(t) ==
    IF cstore.op = "set_variable"
    THEN t \in StoredContent.variables
    ELSE \E i \in DOMAIN StoredContent.history : StoredContent.history[i] = t

BothCompleted == \A t \in TaskIds : cstore.tasks[t].pc = "done"

\* C33: FileStorage.list_contexts never waits for the storage lock while it
\* holds that lock itself, a wait that cannot end
C33_ListContextsReturns ==
    ~(cstore.lister.pc = "get" /\ cstore.lock = "lister")

====
